---- MODULE Spec2Model ----
(***************************************************************************)
(* A model of markedly: the component tree (Ui), the render-cache driver,  *)
(* the input router and the event outbox, translated from the Rust source. *)
(***************************************************************************)
EXTENDS Integers, Sequences, FiniteSets, TLC

VARIABLES
    components,     \* Ui.components: ComponentId -> Component
    next_id,        \* Ui.next_id
    root_id,        \* Ui.root_id
    tree_roots,     \* Ui.tree_roots
    runtime_model,  \* the "model" global of Context.runtime
    cache,          \* GgezCache.data: ComponentId -> canvas size
    hovering_over,  \* Input.hovering_over
    sinks,          \* every EventSink created so far: sink id -> VecDeque<String>
    trees,          \* the Tree handles returned to the host so far
    inserts,        \* number of insert_template calls made so far
    raised,         \* per sink: every event raised on it so far, in order
    returned,       \* per sink: every event next() returned so far, in order
    last            \* what the last operation did (its calls, in order, and its result)

vars == <<components, next_id, root_id, tree_roots, runtime_model, cache,
          hovering_over, sinks, trees, inserts, raised, returned, last>>

----------------------------------------------------------------------------
(* Result<T, Error> and Option<T> *)

Ok(v) == [ok |-> TRUE, v |-> v]
Err(e) == [ok |-> FALSE, e |-> e]

\* Option<ComponentId>::None
NoId == -1

\* Option<Coordinates>, Option<EventHook>, Option<Color>, Option<String>: a
\* sequence that is empty for None and holds the value for Some
None == <<>>
Some(v) == <<v>>
IsSome(o) == Len(o) > 0
Unwrap(o) == o[1]

----------------------------------------------------------------------------
(* template/value.rs: TemplateValue and its coercions *)

String(s) == [t |-> "String", s |-> s]
Integer(n) == [t |-> "Integer", n |-> n]
Float(n) == [t |-> "Float", n |-> n]
Percentage(n) == [t |-> "Percentage", n |-> n]
Tuple(vs) == [t |-> "Tuple", vs |-> vs]
Default == [t |-> "Default"]
ScriptValue(src) == [t |-> "ScriptValue", s |-> src]
ScriptStatement(src) == [t |-> "ScriptStatement", s |-> src]

\* Error variants (error.rs)
ErrOther(msg) == [kind |-> "Other", error |-> msg]
ErrScript(msg) == [kind |-> "Script", error |-> msg]
ErrValue(msg, inner) == [kind |-> "Value", error |-> msg, inner |-> inner]
ErrAttribute(component, line, field, inner) ==
    [kind |-> "Attribute", component |-> component, line |-> line,
     field |-> field, inner |-> inner]

\* ScriptTable values
SBool(b) == [t |-> "Bool", b |-> b]
SString(s) == [t |-> "String", s |-> s]

\* a Lua expression that is true the first time it is evaluated in a Lua
\* state and false from then on
ScriptOnce == "(function() local first = not seen; seen = true; return first end)()"

\* The script sources the templates of this model use, as Lua evaluates them
\* against the globals of the Lua state: the fields of the "model" table
\* under their keys, the global "seen" under "_G.seen".  A missing key is
\* nil, nil is falsy and does not convert to a string.
EvalBool(src, model) ==
    CASE src = ScriptOnce -> Ok("_G.seen" \notin DOMAIN model)
      [] src = "model.flag" ->
            Ok(IF "flag" \in DOMAIN model
               THEN (IF model["flag"].t = "Bool" THEN model["flag"].b ELSE TRUE)
               ELSE FALSE)
      [] src = "not model.flag" ->
            Ok(IF "flag" \in DOMAIN model
               THEN (IF model["flag"].t = "Bool" THEN ~model["flag"].b ELSE FALSE)
               ELSE TRUE)
      [] OTHER -> Err(ErrScript(src))

EvalString(src, model) ==
    CASE src = "model.ev" ->
            IF "ev" \in DOMAIN model /\ model["ev"].t = "String"
            THEN Ok(model["ev"].s)
            ELSE Err(ErrScript(src))
      [] OTHER -> Err(ErrScript(src))

EvalInteger(src, model) == Err(ErrScript(src))

EvalFloat(src, model) == Err(ErrScript(src))

as_string(value, model) ==
    CASE value.t = "String" -> Ok(value.s)
      [] value.t = "ScriptValue" -> EvalString(value.s, model)
      [] OTHER -> Err(ErrOther("Value is not a string"))

as_integer(value, model) ==
    CASE value.t = "Integer" -> Ok(value.n)
      [] value.t = "ScriptValue" -> EvalInteger(value.s, model)
      [] OTHER -> Err(ErrOther("Value is not an integer"))

as_float(value, model) ==
    CASE value.t = "Float" -> Ok(value.n)
      [] value.t = "ScriptValue" -> EvalFloat(value.s, model)
      [] OTHER -> Err(ErrOther("Value is not a float"))

\* Coordinate::Exact(v) / Coordinate::RelativeToParent(v): the relative
\* fraction is kept as the percentage it came from (value as f32 / 100.0)
Exact(v) == [rel |-> FALSE, v |-> v]
RelativeToParent(pct) == [rel |-> TRUE, v |-> pct]

as_coordinate(value, model) ==
    CASE value.t = "Float" -> Ok(Exact(value.n))
      [] value.t = "Percentage" -> Ok(RelativeToParent(value.n))
      [] value.t = "ScriptValue" ->
            LET r == EvalFloat(value.s, model)
            IN  IF r.ok THEN Ok(Exact(r.v)) ELSE r
      [] OTHER -> Err(ErrOther("Value is not a float or percentage"))

as_coordinates(value, model) ==
    IF value.t = "Tuple"
    THEN IF Len(value.vs) = 2
         THEN LET x == as_coordinate(value.vs[1], model)
                  y == as_coordinate(value.vs[2], model)
              IN  IF ~x.ok THEN Err(ErrValue("Value 1", x.e))
                  ELSE IF ~y.ok THEN Err(ErrValue("Value 2", y.e))
                  ELSE Ok([x |-> x.v, y |-> y.v])
         ELSE Err(ErrOther("Tuple is incorrect size"))
    ELSE Err(ErrOther("Value is not a tuple"))

range_i(value, min, max) == value >= min /\ value <= max

\* alpha is a float in [0, 1]; the templates of this model use 0 and 1 only,
\* for which (255.0 * alpha).round() is exact
as_color(value, model) ==
    IF value.t = "Tuple"
    THEN LET has_alpha == Len(value.vs) = 4 IN
         IF Len(value.vs) = 3 \/ has_alpha
         THEN LET red == as_integer(value.vs[1], model)
                  green == as_integer(value.vs[2], model)
                  blue == as_integer(value.vs[3], model)
                  alpha == IF has_alpha THEN as_float(value.vs[4], model) ELSE Ok(1)
              IN  IF ~red.ok THEN Err(ErrValue("Value 1", red.e))
                  ELSE IF ~green.ok THEN Err(ErrValue("Value 2", green.e))
                  ELSE IF ~blue.ok THEN Err(ErrValue("Value 3", blue.e))
                  ELSE IF ~alpha.ok THEN Err(ErrValue("Value 4", alpha.e))
                  ELSE IF ~range_i(alpha.v, 0, 1) THEN Err(ErrOther("Value 4"))
                  ELSE IF ~range_i(red.v, 0, 255) THEN Err(ErrOther("Value 1"))
                  ELSE IF ~range_i(green.v, 0, 255) THEN Err(ErrOther("Value 2"))
                  ELSE IF ~range_i(blue.v, 0, 255) THEN Err(ErrOther("Value 3"))
                  ELSE Ok(<<red.v, green.v, blue.v, 255 * alpha.v>>)
         ELSE Err(ErrOther("Tuple is incorrect size"))
    ELSE Err(ErrOther("Value is not a tuple"))

\* EventHook::Direct(s) / EventHook::Script(s)
Direct(s) == [hook |-> "Direct", s |-> s]
Script(s) == [hook |-> "Script", s |-> s]

as_event_hook(value, model) ==
    CASE value.t = "String" -> Ok(Direct(value.s))
      [] value.t = "ScriptValue" ->
            LET r == EvalString(value.s, model)
            IN  IF r.ok THEN Ok(Direct(r.v)) ELSE r
      [] value.t = "ScriptStatement" -> Ok(Script(value.s))
      [] OTHER -> Err(ErrOther("Value is not a string or script statement"))

----------------------------------------------------------------------------
(* template/component.rs, template/attributes.rs: the attribute resolver *)

\* TemplateAttribute
Attr(key, value) == [key |-> key, value |-> value, script_conditional |-> None]
AttrIf(key, value, cond) == [key |-> key, value |-> value, script_conditional |-> Some(cond)]

check_conditional(attribute, model) ==
    IF IsSome(attribute.script_conditional)
    THEN EvalBool(Unwrap(attribute.script_conditional), model)
    ELSE Ok(TRUE)

\* an insert that leaves a key that is there alone
MapInsert_vacant(map, key, value) ==
    IF key \in DOMAIN map THEN map
    ELSE [k \in DOMAIN map \cup {key} |-> IF k = key THEN value ELSE map[k]]

\* HashMap::insert
MapInsert(map, key, value) ==
    [k \in DOMAIN map \cup {key} |-> IF k = key THEN value ELSE map[k]]

\* an evaluation that consumes the flag it reads
AfterEval_consuming(src, model) ==
    IF src = "model.flag" /\ "flag" \in DOMAIN model
    THEN MapInsert(model, "flag", SBool(FALSE))
    ELSE model

\* the globals of the Lua state after self.lua.eval(source, None)
AfterEval(src, model) ==
    IF src = ScriptOnce THEN MapInsert(model, "_G.seen", SBool(TRUE))
    ELSE model

\* the Lua state after attribute.check_conditional(&context.runtime)
after_conditional(attribute, model) ==
    IF IsSome(attribute.script_conditional)
    THEN AfterEval(Unwrap(attribute.script_conditional), model)
    ELSE model

\* for attribute in attributes { if attribute.check_conditional()? { insert } },
\* with the Lua state the evaluations leave behind
RECURSIVE InsertAttributes(_, _, _, _)
InsertAttributes(attributes, i, model, map) ==
    IF i > Len(attributes) THEN [ok |-> TRUE, v |-> map, runtime |-> model]
    ELSE LET c == check_conditional(attributes[i], model)
         IN  IF ~c.ok THEN [ok |-> FALSE, e |-> c.e, runtime |-> model]
             ELSE InsertAttributes(attributes, i + 1, after_conditional(attributes[i], model),
                     IF c.v THEN MapInsert(map, attributes[i].key, attributes[i].value)
                     ELSE map)

\* the attributes of every rule of a sheet of up to two rules go in,
\* whatever the class
InsertStyle_any(style, i, class, model, map) ==
    InsertAttributes((IF Len(style) >= 1 THEN style[1].attributes ELSE <<>>)
                     \o (IF Len(style) >= 2 THEN style[2].attributes ELSE <<>>),
                     1, model, map)

\* for component in &style.components { if component.class == template.class ... }
RECURSIVE InsertStyle(_, _, _, _, _)
InsertStyle(style, i, class, model, map) ==
    IF i > Len(style) THEN [ok |-> TRUE, v |-> map, runtime |-> model]
    ELSE IF style[i].class = class
         THEN LET r == InsertAttributes(style[i].attributes, 1, model, map)
              IN  IF r.ok THEN InsertStyle(style, i + 1, class, r.runtime, r.v) ELSE r
         ELSE InsertStyle(style, i + 1, class, model, map)

\* Attributes::resolve, after the style's attributes went in
resolve_template(template, model, s) ==
    IF ~s.ok THEN s
    ELSE InsertAttributes(template.attributes, 1, s.runtime, s.v)

\* Attributes::resolve, with both maps merged
resolve_attributes(template, t) ==
    IF ~t.ok THEN t
    ELSE [ok |-> TRUE,
          v |-> [attributes |-> t.v,
                 component_class |-> template.class,
                 component_line |-> template.line],
          runtime |-> t.runtime]

\* the template's attributes first and the style's over them
resolve_style_last(template, style, model) ==
    resolve_attributes(template,
        LET t == InsertAttributes(template.attributes, 1, model, <<>>)
        IN  IF ~t.ok THEN t
            ELSE InsertStyle(style, 1, template.class, t.runtime, t.v))

\* Attributes::resolve
resolve(template, style, model) ==
    resolve_attributes(template,
        resolve_template(template, model,
            InsertStyle(style, 1, template.class, model, <<>>)))

\* Docking::from_value_individual
docking_from_value_individual(value, model) ==
    LET s == as_string(value, model)
    IN  IF ~s.ok THEN s
        ELSE IF s.v \in {"start", "middle", "end"} THEN Ok(s.v)
        ELSE Err(ErrOther("Values must be either start or end"))

\* Docking::from_value, on the two values converted
docking_new(a, b) ==
    IF ~a.ok THEN a ELSE IF ~b.ok THEN b ELSE Ok(<<a.v, b.v>>)

\* Docking::from_value
docking_from_value(value, model) ==
    IF value.t # "Tuple" THEN Err(ErrOther("Value is not a tuple"))
    ELSE IF Len(value.vs) # 2 THEN Err(ErrOther("Tuple is incorrect size"))
    ELSE docking_new(docking_from_value_individual(value.vs[1], model),
                     docking_from_value_individual(value.vs[2], model))

\* The closures handed to attribute / attribute_optional, by name
Coerce(how, value, model) ==
    CASE how = "as_string" -> as_string(value, model)
      [] how = "as_float" -> as_float(value, model)
      [] how = "as_color" -> as_color(value, model)
      [] how = "as_coordinates" -> as_coordinates(value, model)
      [] how = "as_event_hook" -> as_event_hook(value, model)
      [] how = "docking" -> docking_from_value(value, model)

\* the error of the closure handed on as it is
WrapAttribute_bare(attributes, key, r) == r

\* .map_err(|error| Error::Attribute { .. })
WrapAttribute(attributes, key, r) ==
    IF r.ok THEN r
    ELSE Err(ErrAttribute(attributes.component_class, attributes.component_line, key, r.e))

\* Attributes::attribute
attribute(attributes, key, how, default, model) ==
    WrapAttribute(attributes, key,
        IF key \in DOMAIN attributes.attributes
        THEN Coerce(how, attributes.attributes[key], model)
        ELSE Ok(default))

\* Ok(Some(map(value)?))
OkSome(r) == IF r.ok THEN Ok(Some(r.v)) ELSE r

\* Attributes::attribute_optional
attribute_optional(attributes, key, how, model) ==
    WrapAttribute(attributes, key,
        IF key \in DOMAIN attributes.attributes
        THEN IF attributes.attributes[key].t = "Default"
             THEN Ok(None)
             ELSE OkSome(Coerce(how, attributes.attributes[key], model))
        ELSE Ok(None))

----------------------------------------------------------------------------
(* class/: the component classes and their registry *)

\* BackgroundAttributes { color: ..?, color_hovering: ..?, border_radius: ..? }
BackgroundAttributes_new(color, color_hovering, border_radius) ==
    IF ~color.ok THEN color
    ELSE IF ~color_hovering.ok THEN color_hovering
    ELSE IF ~border_radius.ok THEN border_radius
    ELSE Ok([color |-> color.v, color_hovering |-> color_hovering.v,
             border_radius |-> border_radius.v])

\* BackgroundAttributes::load
BackgroundAttributes_load(attributes, model) ==
    BackgroundAttributes_new(
        attribute_optional(attributes, "color", "as_color", model),
        attribute_optional(attributes, "color-hovering", "as_color", model),
        attribute(attributes, "border-radius", "as_float", 0, model))

\* ButtonAttributes { text: ..?, text_color: ..?, on_pressed: ..? }
ButtonAttributes_new(text, text_color, on_pressed) ==
    IF ~text.ok THEN text
    ELSE IF ~text_color.ok THEN text_color
    ELSE IF ~on_pressed.ok THEN on_pressed
    ELSE Ok([text |-> text.v, text_color |-> text_color.v, on_pressed |-> on_pressed.v])

\* ButtonAttributes::load
ButtonAttributes_load(attributes, model) ==
    ButtonAttributes_new(
        attribute_optional(attributes, "text", "as_string", model),
        attribute(attributes, "text-color", "as_color", <<0, 0, 0, 255>>, model),
        attribute_optional(attributes, "on-pressed", "as_event_hook", model))

\* ButtonClass { background: ..?, attributes: ..?, hovering: false }
ButtonClass_of(background, battrs) ==
    IF ~background.ok THEN background
    ELSE IF ~battrs.ok THEN battrs
    ELSE Ok([name |-> "button", background |-> background.v,
             attributes |-> battrs.v, hovering |-> FALSE])

\* ButtonClass::new (ComponentClassFactory)
ButtonClass_new(attributes, model) ==
    ButtonClass_of(BackgroundAttributes_load(attributes, model),
                   ButtonAttributes_load(attributes, model))

\* ContainerClass { background: ..? }
ContainerClass_of(background) ==
    IF ~background.ok THEN background
    ELSE Ok([name |-> "container", background |-> background.v])

\* ContainerClass::new (ComponentClassFactory)
ContainerClass_new(attributes, model) ==
    ContainerClass_of(BackgroundAttributes_load(attributes, model))

\* self.background = ..?; self.attributes = ..?; hovering is kept
ButtonClass_assign(class, background, battrs) ==
    IF ~background.ok THEN Err(background.e)
    ELSE IF ~battrs.ok
         \* self.background was assigned before ButtonAttributes::load failed
         THEN [ok |-> FALSE, e |-> battrs.e, partial |-> TRUE,
               v |-> [class EXCEPT !.background = background.v]]
    ELSE Ok([class EXCEPT !.background = background.v, !.attributes = battrs.v])

\* ButtonClass::update_attributes
ButtonClass_update_attributes(class, attributes, model) ==
    ButtonClass_assign(class, BackgroundAttributes_load(attributes, model),
                       ButtonAttributes_load(attributes, model))

\* self.background = ..?
ContainerClass_assign(class, background) ==
    IF ~background.ok THEN Err(background.e)
    ELSE Ok([class EXCEPT !.background = background.v])

\* ContainerClass::update_attributes
ContainerClass_update_attributes(class, attributes, model) ==
    ContainerClass_assign(class, BackgroundAttributes_load(attributes, model))

\* the classes the host registers (example/src/main.rs)
RegisteredClasses == {"container", "button"}

\* ComponentClasses::create
ComponentClasses_create(template, attributes, model) ==
    IF template.class \notin RegisteredClasses
    THEN Err(ErrOther("Component class was not registered"))
    ELSE IF template.class = "button" THEN ButtonClass_new(attributes, model)
    ELSE ContainerClass_new(attributes, model)

\* ComponentClass::update_attributes, dispatched on the boxed class
class_update_attributes(class, attributes, model) ==
    IF class.name = "button" THEN ButtonClass_update_attributes(class, attributes, model)
    ELSE ContainerClass_update_attributes(class, attributes, model)

\* BackgroundAttributes::is_capturing_cursor
BackgroundAttributes_is_capturing_cursor(background) == IsSome(background.color)

\* ComponentClass::is_capturing_cursor: true for a button, the background's
\* for a container
is_capturing_cursor(class) ==
    IF class.name = "button" THEN TRUE
    ELSE BackgroundAttributes_is_capturing_cursor(class.background)

\* ComponentClass::hover_start_event: [the class after the call, the bool returned]
hover_start_event(class) ==
    IF class.name = "button"
    THEN [class |-> [class EXCEPT !.hovering = TRUE], ret |-> TRUE]
    ELSE [class |-> class, ret |-> FALSE]

\* ComponentClass::hover_end_event
hover_end_event(class) ==
    IF class.name = "button"
    THEN [class |-> [class EXCEPT !.hovering = FALSE], ret |-> TRUE]
    ELSE [class |-> class, ret |-> FALSE]

----------------------------------------------------------------------------
(* component.rs: Component and its core attributes *)

\* ComponentAttributes { position: ..?, size: ..?, docking: ..?, margin: ..? }
ComponentAttributes_new(position, size, docking, margin) ==
    IF ~position.ok THEN position
    ELSE IF ~size.ok THEN size
    ELSE IF ~docking.ok THEN docking
    ELSE IF ~margin.ok THEN margin
    ELSE Ok([position |-> position.v, size |-> size.v,
             docking |-> docking.v, margin |-> margin.v])

\* ComponentAttributes::load
ComponentAttributes_load(attributes, model) ==
    ComponentAttributes_new(
        attribute_optional(attributes, "position", "as_coordinates", model),
        attribute_optional(attributes, "size", "as_coordinates", model),
        attribute(attributes, "docking", "docking", <<"start", "start">>, model),
        attribute(attributes, "margin", "as_float", 0, model))

----------------------------------------------------------------------------
(* The templates, the style sheet and the models the host hands to the Ui.  *)
(* A template is written as the parser reads it: its components in document *)
(* order, each with its nesting level.                                      *)

Node(level, class, style_class, attributes, line) ==
    [level |-> level, class |-> class, style_class |-> style_class,
     attributes |-> attributes, line |-> line]

Coords(x, y) == Tuple(<<Float(x), Float(y)>>)
Grey == Tuple(<<Integer(10), Integer(10), Integer(10)>>)

\* template.children of the component at index i, as indices, in order
RECURSIVE SortedSeq(_)
SortedSeq(S) ==
    IF S = {} THEN <<>>
    ELSE LET m == CHOOSE x \in S : \A y \in S : x <= y
         IN  <<m>> \o SortedSeq(S \ {m})

ChildrenOf(T, i) ==
    SortedSeq({j \in (i + 1)..Len(T) :
                  /\ T[j].level = T[i].level + 1
                  /\ \A k \in (i + 1)..j : T[k].level > T[i].level})

\* ComponentTemplate without its children (the Component's clone of it is
\* read for class, style_class, attributes and line only)
TemplateOf(name, T, i) ==
    [class |-> T[i].class, style_class |-> T[i].style_class,
     attributes |-> T[i].attributes, line |-> T[i].line, handle |-> <<name, i>>]

TargetSize == <<100, 100>>

StyleSheet ==
    << [class |-> "button",
        attributes |-> <<Attr("size", Coords(20, 20)), Attr("color", Grey)>>],
       [class |-> "container",
        attributes |-> <<AttrIf("margin", Float(4), "model.flag")>>] >>

\* a screen: a panel with a button in it, a second button over the panel's
\* corner, and an empty slot row
RootScreen ==
    << Node(0, "container", None, <<Attr("size", Coords(100, 100)),
                                    Attr("position", Coords(0, 0))>>, 1),
       Node(1, "container", Some("panel"),
            <<Attr("position", Coords(0, 0)), Attr("size", Coords(60, 60)),
              Attr("color", Grey)>>, 2),
       Node(2, "button", None,
            <<Attr("position", Coords(0, 0)),
              Attr("docking", Tuple(<<String("middle"), String("middle")>>)),
              Attr("on-pressed", String("a"))>>, 3),
       Node(1, "button", None,
            <<Attr("position", Coords(-20, -20)), Attr("size", Coords(40, 40)),
              Attr("docking", Tuple(<<String("end"), String("end")>>)),
              Attr("on-pressed", String("b"))>>, 4),
       Node(1, "container", Some("slot"),
            <<Attr("position", Coords(0, 80)),
              Attr("size", Tuple(<<Percentage(100), Float(20)>>))>>, 5) >>

\* a root that leaves its size to the parent extent, with a flow of two slots
RootFlow ==
    << Node(0, "container", Some("slot"), <<>>, 1),
       Node(1, "button", None, <<Attr("on-pressed", String("a"))>>, 2),
       Node(1, "container", Some("slot"),
            <<Attr("size", Coords(40, 40)), Attr("color", Grey)>>, 3) >>

RootTemplates == {"RootScreen", "RootFlow"}

\* one flow-placed button
GraftButton ==
    << Node(0, "button", None,
            <<Attr("on-pressed", String("c")),
              AttrIf("color", Default, "not model.flag")>>, 1) >>

\* a row holding a button whose event name comes from the model
GraftRow ==
    << Node(0, "container", Some("slot"),
            <<Attr("size", Tuple(<<Percentage(50), Percentage(100)>>))>>, 1),
       Node(1, "button", None, <<Attr("on-pressed", ScriptValue("model.ev"))>>, 2) >>

\* a row whose second child names a class nobody registered
GraftBroken ==
    << Node(0, "container", None, <<>>, 1),
       Node(1, "button", None, <<>>, 2),
       Node(1, "label", None, <<>>, 3) >>

InsertTemplates == {"GraftButton", "GraftRow", "GraftBroken"}

\* a screen whose panel holds a component of an unregistered class, ahead of
\* a button whose size is no pair of coordinates
RootBroken ==
    << Node(0, "container", None, <<>>, 1),
       Node(1, "container", Some("panel"), <<Attr("color", Grey)>>, 2),
       Node(2, "label", None, <<>>, 3),
       Node(1, "button", None, <<Attr("size", String("wide"))>>, 4) >>

\* a screen whose button has an attribute under a condition that raises
RootUnresolved ==
    << Node(0, "container", None, <<>>, 1),
       Node(1, "button", None, <<AttrIf("margin", Float(1), "error()")>>, 2),
       Node(1, "button", None, <<>>, 3) >>

\* the templates Ui::new is tried on
NewTemplates == RootTemplates \cup InsertTemplates \cup {"RootBroken", "RootUnresolved"}

\* the parsed templates, by name
Template(name) ==
    CASE name = "RootScreen" -> RootScreen
      [] name = "RootFlow" -> RootFlow
      [] name = "GraftButton" -> GraftButton
      [] name = "GraftRow" -> GraftRow
      [] name = "GraftBroken" -> GraftBroken
      [] name = "RootBroken" -> RootBroken
      [] name = "RootUnresolved" -> RootUnresolved

\* the ComponentTemplate a handle stands for
TemplateAt(handle) == TemplateOf(handle[1], Template(handle[1]), handle[2])

EmptyModel == <<>>
Models ==
    { EmptyModel,
      ("flag" :> SBool(TRUE)) @@ ("ev" :> SString("e")) }

StyleClasses == {"slot", "nowhere"}

----------------------------------------------------------------------------
(* component.rs: Component *)

\* a component that raises its events on the sink of the first tree
Component_new_first_sink(template, event_sink, class, component_attributes) ==
    IF ~component_attributes.ok THEN component_attributes
    ELSE Ok([class |-> class.v,
             style_class |-> template.style_class,
             event_sink |-> 1,
             needs_render_update |-> TRUE,
             children |-> <<>>,
             attributes |-> component_attributes.v,
             template |-> template.handle])

\* Component { class, style_class, event_sink, needs_render_update: true, .. };
\* the component's clone of its template is kept as the handle of that
\* (immutable) template
Component_new(template, event_sink, class, component_attributes) ==
    IF ~component_attributes.ok THEN component_attributes
    ELSE Ok([class |-> class.v,
             style_class |-> template.style_class,
             event_sink |-> event_sink,
             needs_render_update |-> TRUE,
             children |-> <<>>,
             attributes |-> component_attributes.v,
             template |-> template.handle])

\* Component::from_template, with the class created
from_template_class(template, event_sink, model, attributes, class) ==
    IF ~class.ok THEN class
    ELSE Component_new(template, event_sink, class,
                       ComponentAttributes_load(attributes.v, model))

\* Component::from_template, with the attributes resolved
from_template_attributes(template, event_sink, model, attributes) ==
    IF ~attributes.ok THEN attributes
    ELSE from_template_class(template, event_sink, model, attributes,
                             ComponentClasses_create(template, attributes.v, model))

\* Component::from_template
from_template(template, event_sink, style, model) ==
    from_template_attributes(template, event_sink, model,
                             resolve(template, style, model))

\* update_attributes that leaves the dirty flag as it was
update_attributes_class_quiet(component, class) ==
    IF ~class.ok
    THEN [ok |-> FALSE, e |-> class.e, component |-> component]
    ELSE [ok |-> TRUE, component |-> [component EXCEPT !.class = class.v]]

\* Component::update_attributes, with the class updated
update_attributes_class(component, class) ==
    IF ~class.ok
    THEN [ok |-> FALSE, e |-> class.e,
          component |-> IF "partial" \in DOMAIN class
                        THEN [component EXCEPT !.class = class.v]
                        ELSE component]
    ELSE [ok |-> TRUE,
          component |-> [component EXCEPT !.class = class.v,
                                          !.needs_render_update = TRUE]]

\* Component::update_attributes, with the attributes resolved
update_attributes_resolved(component, model, attributes) ==
    IF ~attributes.ok THEN [ok |-> FALSE, e |-> attributes.e, component |-> component]
    ELSE update_attributes_class(component,
             class_update_attributes(component.class, attributes.v, model))

\* Component::update_attributes: the component afterwards, and whether it failed
update_attributes(component, style, model) ==
    update_attributes_resolved(component, model,
        resolve(TemplateAt(component.template), style, model))

----------------------------------------------------------------------------
(* component.rs: layout.  Lengths are whole numbers; the templates of this  *)
(* model use percentages and sizes whose products and halves are whole, so  *)
(* the f32 arithmetic of the source is exact on them.                       *)

Max(a, b) == IF a >= b THEN a ELSE b

\* Coordinate::to_float
to_float(coordinate, parent_container) ==
    IF coordinate.rel THEN (parent_container * coordinate.v) \div 100
    ELSE coordinate.v

\* Coordinates::to_vector / to_point
to_vector(coordinates, parent_container) ==
    <<to_float(coordinates.x, parent_container[1]),
      to_float(coordinates.y, parent_container[2])>>

\* ComponentFlow::new
ComponentFlow_new(limits) ==
    [limits |-> limits, pointer |-> <<0, 0>>, pointer_margin |-> 0, next_line |-> 0]

\* a flow that starts a new line when the child would end on the limit
ComponentFlow_position_strict(flow, size, margin) ==
    LET max_x_margin == Max(flow.pointer_margin, margin)
        next_x == flow.pointer[1] + max_x_margin
        position == IF next_x + size[1] < flow.limits[1]
                    THEN <<next_x, flow.pointer[2] + margin>>
                    ELSE <<margin, flow.next_line + margin>>
    IN  [position |-> position,
         flow |-> [limits |-> flow.limits,
                   pointer |-> <<position[1] + size[1], position[2] - margin>>,
                   pointer_margin |-> margin,
                   next_line |-> Max(position[2] + size[2], flow.next_line)]]

\* a flow whose next line starts below the child placed last
ComponentFlow_position_last(flow, size, margin) ==
    LET max_x_margin == Max(flow.pointer_margin, margin)
        next_x == flow.pointer[1] + max_x_margin
        position == IF next_x + size[1] <= flow.limits[1]
                    THEN <<next_x, flow.pointer[2] + margin>>
                    ELSE <<margin, flow.next_line + margin>>
    IN  [position |-> position,
         flow |-> [limits |-> flow.limits,
                   pointer |-> <<position[1] + size[1], position[2] - margin>>,
                   pointer_margin |-> margin,
                   next_line |-> position[2] + size[2]]]

\* a flow whose margins add up
ComponentFlow_position_sum(flow, size, margin) ==
    LET max_x_margin == flow.pointer_margin + margin
        next_x == flow.pointer[1] + max_x_margin
        position == IF next_x + size[1] <= flow.limits[1]
                    THEN <<next_x, flow.pointer[2] + margin>>
                    ELSE <<margin, flow.next_line + margin>>
    IN  [position |-> position,
         flow |-> [limits |-> flow.limits,
                   pointer |-> <<position[1] + size[1], position[2] - margin>>,
                   pointer_margin |-> margin,
                   next_line |-> Max(position[2] + size[2], flow.next_line)]]

\* ComponentFlow::position: the position returned and the flow afterwards
ComponentFlow_position(flow, size, margin) ==
    LET max_x_margin == Max(flow.pointer_margin, margin)
        next_x == flow.pointer[1] + max_x_margin
        position == IF next_x + size[1] <= flow.limits[1]
                    THEN <<next_x, flow.pointer[2] + margin>>
                    ELSE <<margin, flow.next_line + margin>>
    IN  [position |-> position,
         flow |-> [limits |-> flow.limits,
                   pointer |-> <<position[1] + size[1], position[2] - margin>>,
                   pointer_margin |-> margin,
                   next_line |-> Max(position[2] + size[2], flow.next_line)]]

\* ComponentAttributes::compute_size
compute_size(attributes, parent_size) ==
    IF IsSome(attributes.size) THEN to_vector(Unwrap(attributes.size), parent_size)
    ELSE parent_size

\* a docking whose middle is the far edge
Dock_far(docking, position, parent_extent, extent) ==
    CASE docking = "start" -> position
      [] docking = "middle" -> position + parent_extent - extent
      [] docking = "end" -> position + parent_extent - extent

\* one axis of the docking match in compute_position
Dock(docking, position, parent_extent, extent) ==
    CASE docking = "start" -> position
      [] docking = "middle" -> position + (parent_extent - extent) \div 2
      [] docking = "end" -> position + parent_extent - extent

\* ComponentAttributes::compute_position: the position and the parent's flow
\* afterwards
compute_position(attributes, parent_size, parent_flow) ==
    LET size == compute_size(attributes, parent_size) IN
    IF IsSome(attributes.position)
    THEN LET position == to_vector(Unwrap(attributes.position), parent_size)
         IN  [position |-> <<Dock(attributes.docking[1], position[1], parent_size[1], size[1]),
                             Dock(attributes.docking[2], position[2], parent_size[2], size[2])>>,
              flow |-> parent_flow]
    ELSE ComponentFlow_position(parent_flow, size, attributes.margin)

----------------------------------------------------------------------------
(* input/mod.rs: hit-testing *)

\* find_at_position on the components comps: the id found (NoId for None) and
\* the parent's flow afterwards
RECURSIVE find_at_position(_, _, _, _, _, _)
RECURSIVE find_in_children(_, _, _, _, _, _, _, _)

\* find_at_position that records the component whether or not its class
\* captures the cursor
find_at_position_any(position, comps, id, computed_parent_position, parent_size, parent_flow) ==
    LET component == comps[id]
        p == compute_position(component.attributes, parent_size, parent_flow)
        computed_position == <<computed_parent_position[1] + p.position[1],
                               computed_parent_position[2] + p.position[2]>>
        computed_size == compute_size(component.attributes, parent_size)
    IN  IF \/ position[1] < computed_position[1]
           \/ position[2] < computed_position[2]
           \/ position[1] > computed_position[1] + computed_size[1]
           \/ position[2] > computed_position[2] + computed_size[2]
        THEN [found |-> NoId, flow |-> p.flow]
        ELSE [found |-> find_in_children(position, comps, component.children, 1,
                            computed_position, computed_size,
                            ComponentFlow_new(computed_size), id),
              flow |-> p.flow]

find_at_position(position, comps, id, computed_parent_position, parent_size, parent_flow) ==
    LET component == comps[id]
        p == compute_position(component.attributes, parent_size, parent_flow)
        computed_position == <<computed_parent_position[1] + p.position[1],
                               computed_parent_position[2] + p.position[2]>>
        computed_size == compute_size(component.attributes, parent_size)
    IN  IF \/ position[1] < computed_position[1]
           \/ position[2] < computed_position[2]
           \/ position[1] > computed_position[1] + computed_size[1]
           \/ position[2] > computed_position[2] + computed_size[2]
        THEN [found |-> NoId, flow |-> p.flow]
        ELSE [found |-> find_in_children(position, comps, component.children, 1,
                            computed_position, computed_size,
                            ComponentFlow_new(computed_size),
                            IF is_capturing_cursor(component.class) THEN id ELSE NoId),
              flow |-> p.flow]

\* the loop over the children that keeps the first component found
find_in_children_first(position, comps, children, k, computed_position, computed_size, flow, found_id) ==
    IF k > Len(children) THEN found_id
    ELSE LET r == find_at_position(position, comps, children[k],
                                   computed_position, computed_size, flow)
         IN  find_in_children(position, comps, children, k + 1,
                              computed_position, computed_size, r.flow,
                              IF found_id # NoId THEN found_id ELSE r.found)

\* for child_id in &component.children { if let Some(id) = find_at_position(..) { found_id = Some(id) } }
find_in_children(position, comps, children, k, computed_position, computed_size, flow, found_id) ==
    IF k > Len(children) THEN found_id
    ELSE LET r == find_at_position(position, comps, children[k],
                                   computed_position, computed_size, flow)
         IN  find_in_children(position, comps, children, k + 1,
                              computed_position, computed_size, r.flow,
                              IF r.found # NoId THEN r.found ELSE found_id)

\* the call both handlers make: from the root, at the origin, with parent
\* size (0, 0) and a flow limited to the target size
HitTest(position, comps, root) ==
    find_at_position(position, comps, root, <<0, 0>>, <<0, 0>>,
                     ComponentFlow_new(TargetSize)).found

\* the component that holds id among its children
parent_of(comps, id) ==
    CHOOSE p \in DOMAIN comps : \E k \in 1..Len(comps[p].children) : comps[p].children[k] = id

\* computed_size in the call of find_at_position for id: the root is called
\* with Vector2::new(0.0, 0.0) for parent_size, a child with the
\* computed_size of its parent
RECURSIVE computed_size(_, _, _)
computed_size(comps, id, root) ==
    compute_size(comps[id].attributes,
                 IF id = root THEN <<0, 0>>
                 ELSE computed_size(comps, parent_of(comps, id), root))

----------------------------------------------------------------------------
(* ui.rs: Ui *)

\* Ui::load_component on ui = [components, next_id]: the component at index
\* i of the template named T and, through load_children, its children
RECURSIVE load_component(_, _, _, _, _)
RECURSIVE load_children(_, _, _, _, _, _, _)

\* self.components.insert(id, component); Ok(id)
load_component_insert(id, r) ==
    IF ~r.ok THEN r
    ELSE [ok |-> TRUE, id |-> id,
          ui |-> [r.ui EXCEPT !.components = MapInsert(@, id, r.component)]]

\* load_component that takes the id and leaves the counter where it was
load_component_id_kept(ui, T, i, event_sink, model, c) ==
    IF ~c.ok THEN [ok |-> FALSE, e |-> c.e, ui |-> ui]
    ELSE load_component_insert(ui.next_id,
             load_children(ui, T, ChildrenOf(Template(T), i), 1, event_sink, model, c.v))

\* let id = self.next_id; self.next_id += 1; then the children
load_component_id(ui, T, i, event_sink, model, c) ==
    IF ~c.ok THEN [ok |-> FALSE, e |-> c.e, ui |-> ui]
    ELSE load_component_insert(ui.next_id,
             load_children([ui EXCEPT !.next_id = @ + 1], T, ChildrenOf(Template(T), i), 1,
                           event_sink, model, c.v))

load_component(ui, T, i, event_sink, model) ==
    load_component_id(ui, T, i, event_sink, model,
        from_template(TemplateOf(T, Template(T), i), event_sink, StyleSheet, model))

\* load_children that goes on to the next child when one failed
load_children_push_skip(T, kids, k, event_sink, model, component, r) ==
    IF ~r.ok THEN load_children(r.ui, T, kids, k + 1, event_sink, model, component)
    ELSE load_children(r.ui, T, kids, k + 1, event_sink, model,
                       [component EXCEPT !.children = Append(@, r.id)])

\* component.children.push(..?), then the next child
load_children_push(T, kids, k, event_sink, model, component, r) ==
    IF ~r.ok THEN r
    ELSE load_children(r.ui, T, kids, k + 1, event_sink, model,
                       [component EXCEPT !.children = Append(@, r.id)])

\* for child in &template.children { component.children.push(load_component(child)?) }
load_children(ui, T, kids, k, event_sink, model, component) ==
    IF k > Len(kids) THEN [ok |-> TRUE, ui |-> ui, component |-> component]
    ELSE load_children_push(T, kids, k, event_sink, model, component,
                            load_component(ui, T, kids[k], event_sink, model))

\* Ui::new, for a template and model it accepts
Ui_new(template, model) ==
    load_component([components |-> <<>>, next_id |-> 0], template, 1, 1, model)

\* the host builds the Ui from a root template with no model
\* (Ui::new(&root_template, None, style, classes))
Init ==
    \E template \in RootTemplates, model \in {EmptyModel} :
        LET r == Ui_new(template, model) IN
        /\ r.ok
        /\ components = r.ui.components
        /\ next_id = r.ui.next_id
        /\ root_id = r.id
        /\ tree_roots = {}
        /\ runtime_model = model
        /\ cache = <<>>
        /\ hovering_over = NoId
        /\ sinks = << <<>> >>
        /\ trees = << [root |-> r.id, event_sink |-> 1] >>
        /\ inserts = 0
        /\ raised = << <<>> >>
        /\ returned = << <<>> >>
        /\ last = [op |-> "new"]

\* the new root put among the parent's children twice
insert_template_push_twice(comps, parent_id, id) ==
    [comps EXCEPT ![parent_id].children = Append(Append(@, id), id)]

\* the new root put ahead of the parent's children
insert_template_push_front(comps, parent_id, id) ==
    [comps EXCEPT ![parent_id].children = <<id>> \o @]

\* self.get_mut(parent_id).unwrap().children.push(id)
insert_template_push(comps, parent_id, id) ==
    [comps EXCEPT ![parent_id].children = Append(@, id)]

\* before the host has a Ui: nothing stored, no tree handed out
InitNone ==
    /\ components = <<>>
    /\ next_id = 0
    /\ root_id = NoId
    /\ tree_roots = {}
    /\ runtime_model = EmptyModel
    /\ cache = <<>>
    /\ hovering_over = NoId
    /\ sinks = <<>>
    /\ trees = <<>>
    /\ inserts = 0
    /\ raised = <<>>
    /\ returned = <<>>
    /\ last = [op |-> "start"]

\* Ui::new(template, model, ..): Ok((ui, Tree)) or Err(e) and nothing else
Ui_new_call ==
    /\ trees = <<>>
    /\ \E template \in NewTemplates, model \in Models :
       \E r \in {Ui_new(template, model)} :
           /\ runtime_model' = model
           /\ IF r.ok
              THEN /\ components' = r.ui.components
                   /\ next_id' = r.ui.next_id
                   /\ root_id' = r.id
                   /\ sinks' = << <<>> >>
                   /\ raised' = << <<>> >>
                   /\ returned' = << <<>> >>
                   /\ trees' = << [root |-> r.id, event_sink |-> 1] >>
                   /\ last' = [op |-> "Ui::new", ok |-> TRUE,
                               template |-> template, model |-> model]
              ELSE /\ last' = [op |-> "Ui::new", ok |-> FALSE, e |-> r.e,
                               template |-> template, model |-> model]
                   /\ UNCHANGED <<components, next_id, root_id, sinks, raised,
                                  returned, trees>>
    /\ UNCHANGED <<tree_roots, cache, hovering_over, inserts>>

\* bound on the number of insert_template calls
MaxInserts == 1

\* a search that settles for any component
found_parent_id_any(comps, style_class) == DOMAIN comps

\* the components found_parent_id can end up as: the loop runs over the map
\* in an order of its own and keeps the last one whose style class matches
found_parent_id(comps, style_class) ==
    {key \in DOMAIN comps : comps[key].style_class = Some(style_class)}

\* Ui::insert_template
insert_template ==
    /\ inserts < MaxInserts
    /\ \E template \in InsertTemplates, model \in Models, style_class \in StyleClasses :
        LET found == found_parent_id(components, style_class)
        IN  IF found = {}
            THEN /\ last' = [op |-> "insert_template", ok |-> FALSE, style_class |-> style_class]
                 /\ UNCHANGED <<components, next_id, runtime_model, sinks, trees,
                                raised, returned>>
            ELSE \E parent_id \in found :
                 \E event_sink \in {Len(sinks) + 1} :
                 \E r \in {load_component([components |-> components, next_id |-> next_id],
                                          template, 1, event_sink, model)} :
                     /\ runtime_model' = model
                     /\ sinks' = Append(sinks, <<>>)
                     /\ raised' = Append(raised, <<>>)
                     /\ returned' = Append(returned, <<>>)
                     /\ next_id' = r.ui.next_id
                     /\ IF r.ok
                        THEN /\ components' =
                                  insert_template_push(r.ui.components, parent_id, r.id)
                             /\ trees' = Append(trees, [root |-> r.id, event_sink |-> event_sink])
                             /\ last' = [op |-> "insert_template", ok |-> TRUE,
                                         style_class |-> style_class,
                                         parent_id |-> parent_id, id |-> r.id]
                        ELSE /\ components' = r.ui.components
                             /\ trees' = trees
                             /\ last' = [op |-> "insert_template", ok |-> FALSE,
                                         style_class |-> style_class]
    /\ inserts' = inserts + 1
    /\ UNCHANGED <<root_id, tree_roots, cache, hovering_over>>

\* Ui::update_component_recursive on u = [ok, components, log]; log lists the
\* keys update_attributes was called on, in order
RECURSIVE update_component_recursive(_, _, _, _)
RECURSIVE update_children_recursive(_, _, _, _, _)

\* the component put back after component.update_attributes(..)
update_component_put_rebuilt(key, c, r) ==
    [ok |-> r.ok,
     components |-> [c.components EXCEPT ![key] = [r.component EXCEPT !.children = <<>>]],
     log |-> Append(c.log, key)]

update_component_put(key, c, r) ==
    [ok |-> r.ok,
     components |-> [c.components EXCEPT ![key] = r.component],
     log |-> Append(c.log, key)]

\* component.update_attributes(style, model, runtime)? once the children are done
update_component_self(key, model, c) ==
    IF ~c.ok THEN c
    ELSE update_component_put(key, c, update_attributes(c.components[key], StyleSheet, model))

update_component_recursive(u, key, roots, model) ==
    update_component_self(key, model,
        update_children_recursive(u, u.components[key].children, 1, roots, model))

\* for child_i in 0..children.len() { if !tree_roots.contains(&child_id) { recurse? } }
update_children_recursive(u, children, child_i, roots, model) ==
    IF ~u.ok \/ child_i > Len(children) THEN u
    ELSE update_children_recursive(
             IF children[child_i] \notin roots
             THEN update_component_recursive(u, children[child_i], roots, model)
             ELSE u,
             children, child_i + 1, roots, model)

\* Ui::update_model
update_model ==
    \E t \in 1..Len(trees), model \in Models :
        \E u \in {update_component_recursive(
                     [ok |-> TRUE, components |-> components, log |-> <<>>],
                     trees[t].root, tree_roots, model)} :
            /\ runtime_model' = model
            /\ components' = u.components
            /\ last' = [op |-> "update_model", ok |-> u.ok, tree |-> t, log |-> u.log]
            /\ UNCHANGED <<next_id, root_id, tree_roots, cache, hovering_over,
                           sinks, trees, inserts, raised, returned>>

\* mark_all_rendered that clears the flags of the root's tree only
mark_all_rendered_root_tree(comps) ==
    [key \in DOMAIN comps |->
        IF comps[key].event_sink = 1
        THEN [comps[key] EXCEPT !.needs_render_update = FALSE]
        ELSE comps[key]]

\* Ui::mark_all_rendered
mark_all_rendered(comps) ==
    [key \in DOMAIN comps |-> [comps[key] EXCEPT !.needs_render_update = FALSE]]

----------------------------------------------------------------------------
(* render/mod.rs with the ggez backend (markedly-ggez/src/lib.rs).  A       *)
(* renderer r = [ok, cache, log, fail_at]: log lists the backend calls that *)
(* returned Ok, in order; the fail_at-th call fails if it is one that can.   *)

\* one backend call: nothing once an error is being propagated
Renderer_call(r, entry, fallible) ==
    IF ~r.ok THEN r
    ELSE IF fallible /\ Len(r.log) + 1 = r.fail_at THEN [r EXCEPT !.ok = FALSE]
    ELSE [r EXCEPT !.log = Append(@, entry)]

\* GgezRenderer::create_resize_cache: the renderer afterwards and the bool returned
create_resize_cache(r, id, size) ==
    IF id \in DOMAIN r.cache /\ r.cache[id] = size
    THEN [r |-> Renderer_call(r, [call |-> "create_resize_cache", id |-> id, ret |-> FALSE],
                              FALSE),
          ret |-> FALSE]
    ELSE LET c == Renderer_call(r, [call |-> "create_resize_cache", id |-> id, ret |-> TRUE],
                                TRUE)
         IN  [r |-> IF c.ok /\ r.ok THEN [c EXCEPT !.cache = MapInsert(@, id, size)] ELSE c,
              ret |-> TRUE]

\* GgezRenderer::clear_cache
clear_cache(r, id) == Renderer_call(r, [call |-> "clear_cache", id |-> id], FALSE)

\* BackgroundAttributes::render
BackgroundAttributes_render(r, id, background, hovering) ==
    LET current_color == IF hovering /\ IsSome(background.color_hovering)
                         THEN background.color_hovering
                         ELSE background.color
    IN  IF IsSome(current_color)
        THEN Renderer_call(r, [call |-> IF background.border_radius = 0
                                        THEN "rectangle" ELSE "vertices",
                               id |-> id, color |-> Unwrap(current_color)], TRUE)
        ELSE r

\* ComponentClass::render (ButtonClass, ContainerClass)
class_render(r, id, class) ==
    IF class.name = "button"
    THEN LET b == BackgroundAttributes_render(r, id, class.background, class.hovering)
         IN  IF IsSome(class.attributes.text)
             THEN Renderer_call(b, [call |-> "text", id |-> id], TRUE)
             ELSE b
    ELSE BackgroundAttributes_render(r, id, class.background, FALSE)

\* for child_id in &component.children { renderer.render_cache(component_id, *child_id, ..)? }
RECURSIVE render_children(_, _, _, _)
render_children(r, id, children, k) ==
    IF k > Len(children) THEN r
    ELSE render_children(
             Renderer_call(r, [call |-> "render_cache", id |-> id,
                               source_id |-> children[k]], TRUE),
             id, children, k + 1)

\* update_component_cache: the renderer afterwards and the bool returned
RECURSIVE update_component_cache(_, _, _)
RECURSIVE update_children_cache(_, _, _, _, _)

\* update_component_cache that forgets child_updated: a component is rendered
\* for its own cache and flag only
update_component_cache_own(r, comps, component_id) ==
    LET component == comps[component_id]
        cache_empty == create_resize_cache(r, component_id, component.attributes.size)
        child_updated == update_children_cache(cache_empty.r, comps, component.children,
                                               1, FALSE)
    IN  IF cache_empty.ret \/ component.needs_render_update
        THEN [r |-> render_children(
                        class_render(clear_cache(child_updated.r, component_id),
                                     component_id, component.class),
                        component_id, component.children, 1),
              ret |-> TRUE]
        ELSE [r |-> child_updated.r, ret |-> FALSE]

\* update_component_cache that renders every component it visits
update_component_cache_always(r, comps, component_id) ==
    LET component == comps[component_id]
        cache_empty == create_resize_cache(r, component_id, component.attributes.size)
        child_updated == update_children_cache(cache_empty.r, comps, component.children,
                                               1, FALSE)
    IN  [r |-> render_children(
                   class_render(clear_cache(child_updated.r, component_id),
                                component_id, component.class),
                   component_id, component.children, 1),
         ret |-> TRUE]

\* update_component_cache that composites the children's caches before it
\* updates them
update_component_cache_early(r, comps, component_id) ==
    LET component == comps[component_id]
        cache_empty == create_resize_cache(r, component_id, component.attributes.size)
        rendered == render_children(
                        class_render(clear_cache(cache_empty.r, component_id),
                                     component_id, component.class),
                        component_id, component.children, 1)
        child_updated == update_children_cache(rendered, comps, component.children,
                                               1, FALSE)
    IN  [r |-> child_updated.r, ret |-> TRUE]

update_component_cache(r, comps, component_id) ==
    LET component == comps[component_id]
        cache_empty == create_resize_cache(r, component_id, component.attributes.size)
        child_updated == update_children_cache(cache_empty.r, comps, component.children,
                                               1, FALSE)
    IN  IF cache_empty.ret \/ child_updated.ret \/ component.needs_render_update
        THEN [r |-> render_children(
                        class_render(clear_cache(child_updated.r, component_id),
                                     component_id, component.class),
                        component_id, component.children, 1),
              ret |-> TRUE]
        ELSE [r |-> child_updated.r, ret |-> FALSE]

\* for child_id in &component.children { child_updated |= update_component_cache(..)? }
update_children_cache(r, comps, children, k, child_updated) ==
    IF k > Len(children) THEN [r |-> r, ret |-> child_updated]
    ELSE LET c == update_component_cache(r, comps, children[k])
         IN  update_children_cache(c.r, comps, children, k + 1, child_updated \/ c.ret)

\* bound on the backend call that is made to fail (0: none fails)
MaxFailAt == 3

\* render
render ==
    \E fail_at \in 0..MaxFailAt :
        \E r \in {Renderer_call(
                     update_component_cache(
                         [ok |-> TRUE, cache |-> cache, log |-> <<>>, fail_at |-> fail_at],
                         components, root_id).r,
                     [call |-> "render_cache_to_target", id |-> root_id], TRUE)} :
            /\ cache' = r.cache
            /\ components' = IF r.ok THEN mark_all_rendered(components) ELSE components
            /\ last' = [op |-> "render", ok |-> r.ok, log |-> r.log]
            /\ UNCHANGED <<next_id, root_id, tree_roots, runtime_model, hovering_over,
                           sinks, trees, inserts, raised, returned>>

\* render in which the backend call after the MaxFailAt-th is the one that
\* fails
render_late ==
    \E fail_at \in {MaxFailAt + 1} :
        \E r \in {Renderer_call(
                     update_component_cache(
                         [ok |-> TRUE, cache |-> cache, log |-> <<>>, fail_at |-> fail_at],
                         components, root_id).r,
                     [call |-> "render_cache_to_target", id |-> root_id], TRUE)} :
            /\ cache' = r.cache
            /\ components' = IF r.ok THEN mark_all_rendered(components) ELSE components
            /\ last' = [op |-> "render", ok |-> r.ok, log |-> r.log]
            /\ UNCHANGED <<next_id, root_id, tree_roots, runtime_model, hovering_over,
                           sinks, trees, inserts, raised, returned>>

\* GgezCache::new: the host starts over with an empty cache
GgezCache_new ==
    /\ cache # <<>>
    /\ cache' = <<>>
    /\ last' = [op |-> "GgezCache_new"]
    /\ UNCHANGED <<components, next_id, root_id, tree_roots, runtime_model,
                   hovering_over, sinks, trees, inserts, raised, returned>>

----------------------------------------------------------------------------
(* events.rs: EventSink *)

\* EventSink::raise
EventSink_raise(events, event) ==
    CASE event.hook = "Direct" -> Append(events, event.s)

\* next that pops the event raised last
EventSink_next_back(events) ==
    IF Len(events) > 0
    THEN [events |-> SubSeq(events, 1, Len(events) - 1), ret |-> Some(events[Len(events)])]
    ELSE [events |-> events, ret |-> None]

\* EventSink::next: the queue afterwards and the Option returned
EventSink_next(events) ==
    IF Len(events) > 0
    THEN [events |-> Tail(events), ret |-> Some(Head(events))]
    ELSE [events |-> events, ret |-> None]

\* ComponentClass::pressed_event: the sink's queue afterwards
pressed_event(class, events) ==
    IF class.name = "button" /\ IsSome(class.attributes.on_pressed)
    THEN EventSink_raise(events, Unwrap(class.attributes.on_pressed))
    ELSE events

\* the host drains a tree's sink: tree.event_sink().next()
event_sink_next ==
    \E t \in 1..Len(trees) :
        \E r \in {EventSink_next(sinks[trees[t].event_sink])} :
        /\ sinks' = [sinks EXCEPT ![trees[t].event_sink] = r.events]
        /\ returned' = IF IsSome(r.ret)
                       THEN [returned EXCEPT ![trees[t].event_sink] = Append(@, Unwrap(r.ret))]
                       ELSE returned
        /\ last' = [op |-> "next", tree |-> t, ret |-> r.ret]
        /\ UNCHANGED <<components, next_id, root_id, tree_roots, runtime_model,
                       cache, hovering_over, trees, inserts, raised>>

----------------------------------------------------------------------------
(* input/mod.rs: Input *)

\* the cursor positions the host reports
Points == {<<0, 0>>, <<30, 30>>, <<50, 50>>, <<70, 10>>, <<10, 90>>, <<30, 90>>}

\* bound on the number of events raised on one sink
MaxRaised == 2

\* a hover_start half that fires on every hit
hover_start_step_again(h, new_hovering, hovering) ==
    IF new_hovering # NoId
    THEN LET e == hover_start_event(h.components[new_hovering].class)
         IN  [components |-> [h.components EXCEPT
                                 ![new_hovering].class = e.class,
                                 ![new_hovering].needs_render_update = @ \/ e.ret],
              events |-> Append(h.events, <<"hover_start_event", new_hovering>>)]
    ELSE h

\* the hover_start half of handle_cursor_moved: [components, events]
hover_start_step(h, new_hovering, hovering) ==
    IF new_hovering # NoId /\ (hovering = NoId \/ hovering # new_hovering)
    THEN LET e == hover_start_event(h.components[new_hovering].class)
         IN  [components |-> [h.components EXCEPT
                                 ![new_hovering].class = e.class,
                                 ![new_hovering].needs_render_update = @ \/ e.ret],
              events |-> Append(h.events, <<"hover_start_event", new_hovering>>)]
    ELSE h

\* the hover_end half of handle_cursor_moved
hover_end_step(h, new_hovering, hovering) ==
    IF hovering # NoId /\ (new_hovering = NoId \/ new_hovering # hovering)
    THEN LET e == hover_end_event(h.components[hovering].class)
         IN  [components |-> [h.components EXCEPT
                                 ![hovering].class = e.class,
                                 ![hovering].needs_render_update = @ \/ e.ret],
              events |-> Append(h.events, <<"hover_end_event", hovering>>)]
    ELSE h

\* the body of Input::handle_cursor_moved after the hit-test
cursor_moved_steps(comps, new_hovering, hovering) ==
    hover_end_step(
        hover_start_step([components |-> comps, events |-> <<>>], new_hovering, hovering),
        new_hovering, hovering)

\* Input::handle_cursor_moved
handle_cursor_moved ==
    \E position \in Points :
        \E new_hovering \in {HitTest(position, components, root_id)} :
        \E h \in {cursor_moved_steps(components, new_hovering, hovering_over)} :
            /\ components' = h.components
            /\ hovering_over' = new_hovering
            /\ last' = [op |-> "handle_cursor_moved", events |-> h.events]
            /\ UNCHANGED <<next_id, root_id, tree_roots, runtime_model, cache,
                           sinks, trees, inserts, raised, returned>>

\* Input::handle_drag_started
handle_drag_started ==
    \E position \in Points :
        /\ last' = [op |-> "handle_drag_started"]
        /\ UNCHANGED <<components, next_id, root_id, tree_roots, runtime_model, cache,
                       hovering_over, sinks, trees, inserts, raised, returned>>

\* a release that presses the component the cursor was last seen over
drag_ended_hovered(position, comps, root, hovering) == hovering

\* the component Input::handle_drag_ended calls pressed_event on
drag_ended_target(position, comps, root, hovering) == HitTest(position, comps, root)

\* Input::handle_drag_ended
handle_drag_ended ==
    /\ \A k \in 1..Len(sinks) : Len(raised[k]) < MaxRaised
    /\ \E position \in Points :
        \E component_id \in {drag_ended_target(position, components, root_id, hovering_over)} :
            /\ IF component_id # NoId
               THEN \E k \in {components[component_id].event_sink} :
                    \E events \in {pressed_event(components[component_id].class, sinks[k])} :
                        /\ sinks' = [sinks EXCEPT ![k] = events]
                        /\ raised' = [raised EXCEPT ![k] =
                                          @ \o SubSeq(events, Len(sinks[k]) + 1, Len(events))]
               ELSE UNCHANGED <<sinks, raised>>
            /\ last' = [op |-> "handle_drag_ended", position |-> position,
                        events |-> IF component_id # NoId
                                   THEN << <<"pressed_event", component_id>> >>
                                   ELSE <<>>]
            /\ UNCHANGED <<components, next_id, root_id, tree_roots, runtime_model, cache,
                           hovering_over, trees, inserts, returned>>

----------------------------------------------------------------------------
(* template/parse.rs, template/template.rs, template/style.rs: the parser.  *)
(* A document is the sequence of component pairs the grammar hands to       *)
(* parse_document; a pair carries its indentation characters, its class,    *)
(* its style class, its key-value pairs and its line.                       *)

\* the String errors of the parser
ErrParse(msg, line) == [error |-> msg, line |-> line]

\* for c in pair.as_str().chars(): ' ' => spacing += 1, '\t' => spacing += 4
Spacing(indentation) ==
    Cardinality({i \in 1..Len(indentation) : indentation[i] = " "})
    + 4 * Cardinality({i \in 1..Len(indentation) : indentation[i] = "\t"})

\* parse_indentation without the check on the spacing
parse_indentation_floor(pair) == Ok(Spacing(pair.indentation) \div 4)

\* parse_indentation
parse_indentation(pair) ==
    IF Spacing(pair.indentation) % 4 # 0
    THEN Err(ErrParse("Bad amount of indentation spacing, must be divisible by 4", pair.line))
    ELSE Ok(Spacing(pair.indentation) \div 4)

\* parse_attributes: one TemplateAttribute pushed per key_value pair
parse_attributes(key_values) ==
    [k \in 1..Len(key_values) |->
        [key |-> key_values[k].identifier,
         value |-> key_values[k].value,
         script_conditional |-> key_values[k].script_conditional]]

\* parse_component: Rule::indentation => parse_indentation(pair)?, then the rest
parse_component(pair) ==
    IF ~parse_indentation(pair).ok THEN parse_indentation(pair)
    ELSE Ok([component |-> [class |-> pair.identifier,
                            style_class |-> pair.style_class,
                            attributes |-> parse_attributes(pair.attributes),
                            children |-> <<>>,
                            line |-> pair.line],
             indentation |-> parse_indentation(pair).v])

\* finish_sibling that puts the sibling ahead of its parent's children
finish_sibling_front(s) ==
    IF s.parent_stack = <<>> THEN s
    ELSE IF Len(s.parent_stack) >= 2
    THEN [s EXCEPT !.parent_stack =
             Append(SubSeq(@, 1, Len(@) - 2),
                    [@[Len(@) - 1] EXCEPT !.children = <<s.parent_stack[Len(s.parent_stack)]>> \o @])]
    ELSE [s EXCEPT !.parent_stack = <<>>,
                   !.components = Append(@, s.parent_stack[1])]

\* finish_sibling on s = [components, parent_stack, last_indentation]
finish_sibling(s) ==
    IF s.parent_stack = <<>> THEN s
    ELSE IF Len(s.parent_stack) >= 2
    THEN [s EXCEPT !.parent_stack =
             Append(SubSeq(@, 1, Len(@) - 2),
                    [@[Len(@) - 1] EXCEPT !.children = Append(@, s.parent_stack[Len(s.parent_stack)])])]
    ELSE [s EXCEPT !.parent_stack = <<>>,
                   !.components = Append(@, s.parent_stack[1])]

\* for _ in 0..unroll_amount { finish_sibling(..) }
RECURSIVE unroll(_, _)
unroll(s, unroll_amount) ==
    IF unroll_amount = 0 THEN s
    ELSE unroll(finish_sibling(s), unroll_amount - 1)

\* the previous component finished as a sibling, or the stack unrolled
close_previous(s, indentation) ==
    IF indentation = s.last_indentation THEN finish_sibling(s)
    ELSE IF indentation < s.last_indentation
    THEN unroll(s, s.last_indentation - indentation + 1)
    ELSE s

\* the push with no check on the increase
push_component_any(c, last_indentation, s) ==
    [s EXCEPT !.parent_stack = Append(@, c.component),
              !.last_indentation = c.indentation]

\* the check on the increase, parent_stack.push(component) and last_indentation
push_component(c, last_indentation, s) ==
    IF c.indentation > last_indentation /\ c.indentation - last_indentation > 1
    THEN Err(ErrParse("Excessive increase in indentation", c.component.line))
    ELSE [s EXCEPT !.parent_stack = Append(@, c.component),
                   !.last_indentation = c.indentation]

\* the body of the loop of parse_document for one pair, c its parse_component
parse_pair(s, c) ==
    IF ~c.ok THEN c
    ELSE IF s.components = <<>> /\ s.parent_stack = <<>> /\ c.v.indentation # 0
    THEN Err(ErrParse("First component starts at wrong indentation", c.v.component.line))
    ELSE push_component(c.v, s.last_indentation, close_previous(s, c.v.indentation))

\* for pair in document_pair.into_inner()
RECURSIVE parse_pairs(_, _, _)
parse_pairs(pairs, k, s) ==
    IF ~s.ok \/ k > Len(pairs) THEN s
    ELSE parse_pairs(pairs, k + 1, parse_pair(s, parse_component(pairs[k])))

\* the stack unrolled into a final component: each one the child of the one below
RECURSIVE last_component(_, _)
last_component(parent_stack, k) ==
    IF k = Len(parent_stack) THEN parent_stack[k]
    ELSE [parent_stack[k] EXCEPT !.children = Append(@, last_component(parent_stack, k + 1))]

\* parse_document, with the loop done
parse_document_end(s) ==
    IF ~s.ok THEN s
    ELSE Ok(IF s.parent_stack = <<>> THEN s.components
            ELSE Append(s.components, last_component(s.parent_stack, 1)))

\* parse_document
parse_document(pairs) ==
    parse_document_end(
        parse_pairs(pairs, 1, [ok |-> TRUE, components |-> <<>>, parent_stack |-> <<>>,
                               last_indentation |-> 0]))

\* a Template made of the first component of the document, whatever follows
Template_of_first(document) ==
    IF ~document.ok THEN document
    ELSE IF Len(document.v) = 0
    THEN Err(ErrParse("No component found in template", 0))
    ELSE Ok([root |-> document.v[1]])

\* Template::from_str, with the document parsed
Template_of(document) ==
    IF ~document.ok THEN document
    ELSE IF Len(document.v) = 0
    THEN Err(ErrParse("No component found in template", 0))
    ELSE IF Len(document.v) > 1
    THEN Err(ErrParse("More than one root component found in template, only one allowed", 0))
    ELSE Ok([root |-> document.v[1]])

\* Template::from_str
Template_from_str(pairs) == Template_of(parse_document(pairs))

\* Style::from_str
Style_from_str(pairs) ==
    IF ~parse_document(pairs).ok THEN parse_document(pairs)
    ELSE Ok([components |-> parse_document(pairs).v])

\* bound on the number of component lines of a document
MaxLines == 4

\* the indentations tried: none, spaces, tabs and both, by the character
Indentations ==
    { <<>>,
      <<" ", " ">>,
      <<"\t">>,
      <<" ", " ", " ", " ">>,
      <<"\t", " ">>,
      <<" ", " ", "\t", " ", " ">> }

\* the key-value pairs of `{ key1: 5, key1: 10 }`
DuplicateKeys ==
    << [identifier |-> "key1", value |-> Integer(5), script_conditional |-> None],
       [identifier |-> "key1", value |-> Integer(10), script_conditional |-> None] >>

\* the component lines tried
Lines ==
    [indentation : Indentations, identifier : {"root"}, style_class : {None},
     attributes : {<<>>}]
    \cup [indentation : {<<>>}, identifier : {"root"}, style_class : {None},
          attributes : {DuplicateKeys}]

\* the documents tried: up to max component pairs, one to a line
Documents(max) ==
    UNION {{[k \in 1..n |->
                [indentation |-> d[k].indentation, identifier |-> d[k].identifier,
                 style_class |-> d[k].style_class, attributes |-> d[k].attributes,
                 line |-> k]] : d \in [1..n -> Lines]} : n \in 0..max}

\* the host has a text open and no Ui
InitParse ==
    /\ components = <<>>
    /\ next_id = 0
    /\ root_id = NoId
    /\ tree_roots = {}
    /\ runtime_model = EmptyModel
    /\ cache = <<>>
    /\ hovering_over = NoId
    /\ sinks = <<>>
    /\ trees = <<>>
    /\ inserts = 0
    /\ raised = <<>>
    /\ returned = <<>>
    /\ \E text \in Documents(MaxLines) : last = [op |-> "open", text |-> text]

\* Template::from_reader: the text read and handed to Template::from_str
Template_from_reader ==
    /\ last.op = "open"
    /\ last' = [op |-> "Template::from_str", text |-> last.text,
                result |-> Template_from_str(last.text)]
    /\ UNCHANGED <<components, next_id, root_id, tree_roots, runtime_model, cache,
                   hovering_over, sinks, trees, inserts, raised, returned>>

\* Style::from_reader: the text read and handed to Style::from_str
Style_from_reader ==
    /\ last.op = "open"
    /\ last' = [op |-> "Style::from_str", text |-> last.text,
                result |-> Style_from_str(last.text)]
    /\ UNCHANGED <<components, next_id, root_id, tree_roots, runtime_model, cache,
                   hovering_over, sinks, trees, inserts, raised, returned>>

\* the host loading its markup files
NextParse ==
    \/ Template_from_reader
    \/ Style_from_reader

SpecParse == InitParse /\ [][NextParse]_vars

----------------------------------------------------------------------------
(* template/attributes.rs under its callers: a template's attributes        *)
(* resolved against a style sheet, once and again, and then read.           *)

\* bound on the length of a template's attribute list
MaxAttributes == 2

\* the attributes tried in a template: margins under no condition, under a
\* condition on the model, under one that raises and under one that holds
\* once; a margin left to the default; a size
AttributeKinds ==
    { Attr("margin", Float(1)), Attr("margin", Float(2)),
      AttrIf("margin", Float(1), "model.flag"), AttrIf("margin", Float(2), "model.flag"),
      Attr("margin", Default),
      AttrIf("margin", Float(1), "error()"),
      AttrIf("margin", Float(2), ScriptOnce),
      Attr("size", Float(5)) }

\* the button templates tried: up to max attributes in declaration order
ResolveTemplates(max) ==
    UNION {{[class |-> "button", style_class |-> None, attributes |-> a, line |-> 1] :
               a \in [1..n -> AttributeKinds]} : n \in 0..max}

\* the style sheets tried: rules for buttons, one of them under a condition,
\* and a rule for containers
StyleSheets ==
    { <<>>,
      << [class |-> "button", attributes |-> <<Attr("margin", Float(3))>>] >>,
      << [class |-> "button", attributes |-> <<Attr("margin", Float(3))>>],
         [class |-> "button", attributes |-> <<AttrIf("margin", Float(4), "model.flag"),
                                               Attr("size", Float(6))>>] >>,
      << [class |-> "button", attributes |-> <<AttrIf("margin", Float(4), "model.flag"),
                                               Attr("size", Float(6))>>],
         [class |-> "button", attributes |-> <<Attr("margin", Float(3))>>] >>,
      << [class |-> "button", attributes |-> <<Attr("margin", Float(3))>>],
         [class |-> "container", attributes |-> <<Attr("margin", Float(8)),
                                                  Attr("color", Grey)>>] >>,
      << [class |-> "container", attributes |-> <<Attr("margin", Float(8)),
                                                  Attr("color", Grey)>>] >> }

\* a template and a style sheet are at hand and the model is set
InitResolve ==
    /\ components = <<>>
    /\ next_id = 0
    /\ root_id = NoId
    /\ tree_roots = {}
    /\ runtime_model \in Models
    /\ cache = <<>>
    /\ hovering_over = NoId
    /\ sinks = <<>>
    /\ trees = <<>>
    /\ inserts = 0
    /\ raised = <<>>
    /\ returned = <<>>
    /\ \E template \in ResolveTemplates(MaxAttributes), style \in StyleSheets :
          last = [op |-> "template", template |-> template, style |-> style]

\* Attributes::resolve(template, style, context), a first time
\* (Component::from_template) and a second (Component::update_attributes)
Attributes_resolve ==
    /\ \/ last.op = "template"
       \/ last.op = "Attributes::resolve" /\ last.previous = None
    /\ \E r \in {resolve(last.template, last.style, runtime_model)} :
          /\ runtime_model' = r.runtime
          /\ last' = [op |-> "Attributes::resolve",
                      template |-> last.template, style |-> last.style,
                      model |-> runtime_model,
                      result |-> IF r.ok THEN Ok(r.v) ELSE Err(r.e),
                      previous |-> IF last.op = "template" THEN None
                                   ELSE Some(last.result)]
    /\ UNCHANGED <<components, next_id, root_id, tree_roots, cache, hovering_over,
                   sinks, trees, inserts, raised, returned>>

\* the attributes read, each with the closure it is read through
Reads == {<<"margin", "as_float">>, <<"size", "as_coordinates">>}

\* attributes.attribute("margin", |v| v.as_float(runtime), 0.0)
Attributes_attribute ==
    /\ last.op = "Attributes::resolve" /\ last.result.ok /\ last.previous = None
    /\ \E read \in Reads :
          last' = [op |-> "Attributes::attribute", attributes |-> last.result.v,
                   key |-> read[1], how |-> read[2], default |-> 0,
                   result |-> attribute(last.result.v, read[1], read[2], 0, runtime_model)]
    /\ UNCHANGED <<components, next_id, root_id, tree_roots, runtime_model, cache,
                   hovering_over, sinks, trees, inserts, raised, returned>>

\* attributes.attribute_optional("margin", |v| v.as_float(runtime))
Attributes_attribute_optional ==
    /\ last.op = "Attributes::resolve" /\ last.result.ok /\ last.previous = None
    /\ \E read \in Reads :
          last' = [op |-> "Attributes::attribute_optional", attributes |-> last.result.v,
                   key |-> read[1], how |-> read[2],
                   result |-> attribute_optional(last.result.v, read[1], read[2],
                                                 runtime_model)]
    /\ UNCHANGED <<components, next_id, root_id, tree_roots, runtime_model, cache,
                   hovering_over, sinks, trees, inserts, raised, returned>>

\* a component resolving and reading its attributes
NextResolve ==
    \/ Attributes_resolve
    \/ Attributes_attribute
    \/ Attributes_attribute_optional

SpecResolve == InitResolve /\ [][NextResolve]_vars

----------------------------------------------------------------------------
(* The layout of the children of one parent, as find_at_position walks them: *)
(* a flow made for the parent and compute_position called for child after   *)
(* child with it.                                                          *)

\* bound on the number of children the flow places for one parent
MaxPlaced == 3

\* the size of the parent
LayoutParent == <<100, 100>>

\* the core attributes of the children
LayoutAttributes ==
    {[position |-> position, size |-> size, docking |-> <<dx, dy>>, margin |-> margin] :
        position \in {None}, dx \in {"start"}, dy \in {"start"},
        size \in {Some([x |-> Exact(30), y |-> Exact(20)]),
                  Some([x |-> RelativeToParent(50), y |-> Exact(40)])},
        margin \in {0, 10, -5}}
    \cup
    {[position |-> position, size |-> size, docking |-> <<dx, dy>>, margin |-> margin] :
        position \in {Some([x |-> Exact(0), y |-> Exact(0)]),
                      Some([x |-> Exact(-20), y |-> RelativeToParent(10)])},
        dx \in {"start", "middle", "end"}, dy \in {"start", "middle", "end"},
        size \in {Some([x |-> Exact(30), y |-> Exact(20)]), None},
        margin \in {0}}

InitLayout ==
    /\ components = <<>>
    /\ next_id = 0
    /\ root_id = NoId
    /\ tree_roots = {}
    /\ runtime_model = EmptyModel
    /\ cache = <<>>
    /\ hovering_over = NoId
    /\ sinks = <<>>
    /\ trees = <<>>
    /\ inserts = 0
    /\ raised = <<>>
    /\ returned = <<>>
    /\ last = [op |-> "ComponentFlow::new", parent_size |-> LayoutParent,
               flow |-> ComponentFlow_new(LayoutParent), placed |-> <<>>]

\* let mut flow = ComponentFlow::new(computed_size): the children of the
\* next parent start on a flow of their own
ComponentFlow_new_call ==
    /\ last.op = "compute_position"
    /\ last' = [op |-> "ComponentFlow::new", parent_size |-> LayoutParent,
                flow |-> ComponentFlow_new(LayoutParent), placed |-> <<>>]
    /\ UNCHANGED <<components, next_id, root_id, tree_roots, runtime_model, cache,
                   hovering_over, sinks, trees, inserts, raised, returned>>

\* component.compute_position(parent_size, parent_flow) for the next child;
\* placed keeps the children the flow has placed, each with the flow it met
compute_position_call ==
    \E attributes \in LayoutAttributes :
        /\ IsSome(attributes.position) \/ Len(last.placed) < MaxPlaced
        /\ \E r \in {compute_position(attributes, last.parent_size, last.flow)} :
              last' = [op |-> "compute_position", parent_size |-> last.parent_size,
                       attributes |-> attributes, before |-> last.flow,
                       position |-> r.position, flow |-> r.flow,
                       placed |-> IF IsSome(attributes.position) THEN last.placed
                                  ELSE Append(last.placed,
                                              [attributes |-> attributes,
                                               before |-> last.flow,
                                               position |-> r.position])]
        /\ UNCHANGED <<components, next_id, root_id, tree_roots, runtime_model, cache,
                       hovering_over, sinks, trees, inserts, raised, returned>>

NextLayout ==
    \/ ComponentFlow_new_call
    \/ compute_position_call

SpecLayout == InitLayout /\ [][NextLayout]_vars

----------------------------------------------------------------------------
(* The host's handlers *)

Next ==
    \/ insert_template
    \/ update_model
    \/ render
    \/ GgezCache_new
    \/ handle_cursor_moved
    \/ handle_drag_started
    \/ handle_drag_ended
    \/ event_sink_next


Spec == Init /\ [][Next]_vars

\* the Ui under the operations that make a component stale, and render
NextRender ==
    \/ insert_template
    \/ handle_cursor_moved
    \/ render
    \/ GgezCache_new

SpecRender == Init /\ [][NextRender]_vars

\* the Ui under render passes that fail and are tried again
NextRetry ==
    \/ handle_cursor_moved
    \/ render
    \/ render_late
    \/ GgezCache_new

SpecRetry == Init /\ [][NextRetry]_vars

\* the Ui under the operations that decide what the cursor hits, and Input
NextInput ==
    \/ insert_template
    \/ handle_cursor_moved
    \/ handle_drag_started
    \/ handle_drag_ended

SpecInput == Init /\ [][NextInput]_vars

\* the Ui under the pointer alone: moves, presses and releases
NextPress ==
    \/ handle_cursor_moved
    \/ handle_drag_started
    \/ handle_drag_ended

SpecPress == Init /\ [][NextPress]_vars

\* the trees' sinks under the operations that raise events on them and drain them
NextSink ==
    \/ insert_template
    \/ handle_drag_ended
    \/ event_sink_next

SpecSink == Init /\ [][NextSink]_vars

\* the Ui under the operations that build trees, push models into them and
\* hover over them
NextModel ==
    \/ insert_template
    \/ update_model
    \/ handle_cursor_moved

SpecModel == Init /\ [][NextModel]_vars

\* the Ui under the operations that set and clear the dirty flags of whole trees
NextUpdate ==
    \/ insert_template
    \/ update_model
    \/ render

SpecUpdate == Init /\ [][NextUpdate]_vars

\* the host from before Ui::new: construction, tried until it succeeds, then
\* the Ui in use
NextNew ==
    \/ Ui_new_call
    \/ trees # <<>> /\ insert_template
    \/ trees # <<>> /\ handle_cursor_moved

SpecNew == InitNone /\ [][NextNew]_vars

\* the Ui under every operation that takes the store after construction
NextStore ==
    \/ insert_template
    \/ update_model
    \/ render
    \/ handle_cursor_moved
    \/ handle_drag_ended

\* the host built the Ui from the flow template
InitFlow ==
    /\ Init
    /\ components[root_id].template[1] = "RootFlow"

SpecStore == InitFlow /\ [][NextStore]_vars

----------------------------------------------------------------------------
(* Properties of a render pass.  The log of a pass lists the backend calls  *)
(* in order: a component is rendered where its cache is cleared.            *)

\* the direct children of a component
Children(comps, id) == {comps[id].children[k] : k \in 1..Len(comps[id].children)}

\* the components of the tree below id, id included
RECURSIVE Subtree(_, _)
Subtree(comps, id) ==
    {id} \cup UNION {Subtree(comps, c) : c \in Children(comps, id)}

\* the components on the path from the root of the Ui down to id
Ancestors(comps, root, id) == {a \in Subtree(comps, root) : id \in Subtree(comps, a)}

Rendered(log, id) ==
    \E k \in 1..Len(log) : log[k].call = "clear_cache" /\ log[k].id = id

ReportedNew(log, id) ==
    \E k \in 1..Len(log) :
        log[k].call = "create_resize_cache" /\ log[k].id = id /\ log[k].ret

RenderedSet(log) == {log[k].id : k \in {j \in 1..Len(log) : log[j].call = "clear_cache"}}

\* C1: in a render pass that succeeds, a component reachable from the root is
\* rendered if and only if create_resize_cache reported its cache new or
\* resized, or one of its children was rendered in the pass, or its own dirty
\* flag was set when the pass started.
C1_RenderedIffStale ==
    [][(last'.op = "render" /\ last'.ok) =>
          \A id \in Subtree(components, root_id) :
              Rendered(last'.log, id) <=>
                  \/ ReportedNew(last'.log, id)
                  \/ \E c \in Children(components, id) : Rendered(last'.log, c)
                  \/ components[id].needs_render_update]_vars

\* a pass in which one component was rendered for its flag alone (a leaf whose
\* cache was there) while another was not rendered at all
C1_Witness ==
    /\ last.op = "render" /\ last.ok
    /\ \E id \in Subtree(components, root_id) :
          /\ Rendered(last.log, id)
          /\ ~ReportedNew(last.log, id)
          /\ components[id].children = <<>>
    /\ \E id \in Subtree(components, root_id) : ~Rendered(last.log, id)

\* every cache of the tree exists at the size of its component
CachesCurrent ==
    \A id \in Subtree(components, root_id) :
        id \in DOMAIN cache /\ cache[id] = components[id].attributes.size

\* C2: if exactly one leaf has its dirty flag set and every cache exists at
\* the right size, the pass renders that leaf and each of its ancestors up to
\* the root, and no other component.
C2_DirtyLeafPath ==
    [][(/\ last'.op = "render" /\ last'.ok
        /\ CachesCurrent
        /\ \E leaf \in Subtree(components, root_id) :
              /\ components[leaf].children = <<>>
              /\ {id \in Subtree(components, root_id) :
                     components[id].needs_render_update} = {leaf})
       => \A leaf \in Subtree(components, root_id) :
              components[leaf].needs_render_update =>
                  RenderedSet(last'.log) = Ancestors(components, root_id, leaf)]_vars

\* a pass that created no cache and rendered exactly the path from the root
\* to a leaf two levels down, leaving the rest of the tree alone
C2_Witness ==
    /\ last.op = "render" /\ last.ok
    /\ \A id \in Subtree(components, root_id) : ~ReportedNew(last.log, id)
    /\ \E leaf \in Subtree(components, root_id) :
          /\ components[leaf].children = <<>>
          /\ RenderedSet(last.log) = Ancestors(components, root_id, leaf)
          /\ Cardinality(Ancestors(components, root_id, leaf)) >= 3
    /\ RenderedSet(last.log) # Subtree(components, root_id)

\* C3: after render() returned Ok, the dirty flag of every component of the
\* store is false, rendered in the pass or not.
C3_AllClean ==
    (last.op = "render" /\ last.ok) =>
        \A id \in DOMAIN components : ~components[id].needs_render_update

\* a successful pass over a store that holds a grafted tree, part of which
\* the pass did not render
C3_Witness ==
    /\ last.op = "render" /\ last.ok
    /\ Len(trees) > 1
    /\ \E id \in DOMAIN components : ~Rendered(last.log, id)
    /\ \E id \in DOMAIN components : Rendered(last.log, id)

\* C4: in a pass, whenever a child's cache is composited into its parent's,
\* every backend call on the child's subtree has been made before; and a pass
\* that succeeds composites the root's cache to the target exactly once, as
\* its last call; one that fails never does.
C4_ChildrenFirst ==
    (last.op = "render") =>
        /\ \A k \in 1..Len(last.log) :
              last.log[k].call = "render_cache" =>
                  \A j \in 1..Len(last.log) :
                      (/\ last.log[j].call # "render_cache_to_target"
                       /\ last.log[j].id \in Subtree(components, last.log[k].source_id))
                      => j < k
        /\ LET target == {k \in 1..Len(last.log) :
                             last.log[k].call = "render_cache_to_target"}
           IN  IF last.ok
               THEN target = {Len(last.log)} /\ last.log[Len(last.log)].id = root_id
               ELSE target = {}

\* a successful pass that composited a grandchild into a child and the child
\* into the root
C4_Witness ==
    /\ last.op = "render" /\ last.ok
    /\ \E j, k \in 1..Len(last.log) :
          /\ j < k
          /\ last.log[j].call = "render_cache"
          /\ last.log[k].call = "render_cache"
          /\ last.log[k].id = root_id
          /\ last.log[k].source_id = last.log[j].id

----------------------------------------------------------------------------
(* Properties of the input router.  The rectangle of every component is    *)
(* laid out from the root down, each child placed in its parent's extent   *)
(* by ComponentAttributes.                                                 *)

\* the rectangles of the tree below id, added to rects, and the parent's flow
\* afterwards
RECURSIVE Layout(_, _, _, _, _, _)
RECURSIVE LayoutChildren(_, _, _, _, _, _, _)
Layout(comps, id, parent_position, parent_size, parent_flow, rects) ==
    LET p == compute_position(comps[id].attributes, parent_size, parent_flow)
        position == <<parent_position[1] + p.position[1],
                      parent_position[2] + p.position[2]>>
        size == compute_size(comps[id].attributes, parent_size)
    IN  [rects |-> LayoutChildren(comps, comps[id].children, 1, position, size,
                       ComponentFlow_new(size),
                       MapInsert(rects, id, [position |-> position, size |-> size])),
         flow |-> p.flow]

LayoutChildren(comps, children, k, position, size, flow, rects) ==
    IF k > Len(children) THEN rects
    ELSE LET r == Layout(comps, children[k], position, size, flow, rects)
         IN  LayoutChildren(comps, children, k + 1, position, size, r.flow, r.rects)

\* the rectangle of every component of the Ui's tree, as the router's call
\* on the root lays them out
Rects(comps, root) ==
    Layout(comps, root, <<0, 0>>, <<0, 0>>, ComponentFlow_new(TargetSize), <<>>).rects

Inside(point, rect) ==
    /\ point[1] >= rect.position[1] /\ point[1] <= rect.position[1] + rect.size[1]
    /\ point[2] >= rect.position[2] /\ point[2] <= rect.position[2] + rect.size[2]

\* the components in depth-first draw order: a component, then its children
\* in the order declared
RECURSIVE DrawOrder(_, _)
RECURSIVE DrawOrderChildren(_, _, _)
DrawOrder(comps, id) == <<id>> \o DrawOrderChildren(comps, comps[id].children, 1)

DrawOrderChildren(comps, children, k) ==
    IF k > Len(children) THEN <<>>
    ELSE DrawOrder(comps, children[k]) \o DrawOrderChildren(comps, children, k + 1)

\* the components whose bounds, and all of whose ancestors' bounds, contain
\* the point
Containing(point, comps, root) ==
    LET rects == Rects(comps, root)
    IN  {id \in Subtree(comps, root) :
            \A a \in Ancestors(comps, root, id) : Inside(point, rects[a])}

\* those of them whose class captures the cursor
Eligible(point, comps, root) ==
    {id \in Containing(point, comps, root) : is_capturing_cursor(comps[id].class)}

\* the last of them in draw order, NoId if there is none
LastEligible(point, comps, root) ==
    LET eligible == Eligible(point, comps, root)
        order == DrawOrder(comps, root)
    IN  IF eligible = {} THEN NoId
        ELSE order[CHOOSE k \in 1..Len(order) :
                       /\ order[k] \in eligible
                       /\ \A j \in (k + 1)..Len(order) : order[j] \notin eligible]

\* a is a sibling declared before b
EarlierSibling(comps, a, b) ==
    \E parent \in DOMAIN comps :
        \E i, j \in 1..Len(comps[parent].children) :
            i < j /\ comps[parent].children[i] = a /\ comps[parent].children[j] = b

\* C5: when handle_cursor_moved finds a hit other than the component hovered
\* before, hover_end_event is fired on the old one before hover_start_event
\* is fired on the new one.
C5_EndBeforeStart ==
    (last.op = "handle_cursor_moved") =>
        \A i, j \in 1..Len(last.events) :
            (last.events[i][1] = "hover_end_event" /\ last.events[j][1] = "hover_start_event")
            => i < j

\* C6: the hit-test of a point returns the last component, in draw order,
\* that captures the cursor and whose bounds and all of whose ancestors'
\* bounds contain the point; where two capturing siblings both contain the
\* point, the result lies outside the subtree of the one declared earlier.
C6_LastInDrawOrder ==
    \A point \in Points :
        LET hit == HitTest(point, components, root_id) IN
        /\ hit = LastEligible(point, components, root_id)
        /\ \A a, b \in Eligible(point, components, root_id) :
              EarlierSibling(components, a, b) => hit \notin Subtree(components, a)

\* the cursor was moved to a point inside two capturing siblings and the
\* router took the one declared later
C6_Witness ==
    /\ last.op = "handle_cursor_moved"
    /\ hovering_over # NoId
    /\ \E point \in Points :
          /\ HitTest(point, components, root_id) = hovering_over
          /\ \E a \in Eligible(point, components, root_id) :
                EarlierSibling(components, a, hovering_over)

\* C7: the hit-test never returns a component whose class does not capture
\* the cursor, it returns a component whenever a capturing one contains the
\* point, whether or not that one's ancestors capture, and it returns none
\* when no capturing component contains the point.
C7_OnlyCapturing ==
    \A point \in Points :
        LET hit == HitTest(point, components, root_id) IN
        /\ hit # NoId => is_capturing_cursor(components[hit].class)
        /\ hit # NoId <=> Eligible(point, components, root_id) # {}

\* the cursor is over a capturing component below an ancestor that does not
\* capture, and some other point inside that ancestor hits nothing
C7_Witness ==
    /\ last.op = "handle_cursor_moved"
    /\ hovering_over # NoId
    /\ \E a \in Ancestors(components, root_id, hovering_over) :
          /\ ~is_capturing_cursor(components[a].class)
          /\ \E point \in Points :
                /\ a \in Containing(point, components, root_id)
                /\ HitTest(point, components, root_id) = NoId

\* C8: handle_drag_ended fires pressed_event on exactly the component the
\* hit-test returns for the release position, on none if it returns none,
\* whatever is hovered; handle_drag_started changes no state.
C8_PressedAtRelease ==
    [][/\ (last'.op = "handle_drag_ended") =>
            \A hit \in {HitTest(last'.position, components, root_id)} :
            /\ last'.events = IF hit = NoId THEN <<>> ELSE << <<"pressed_event", hit>> >>
            /\ sinks' = IF hit = NoId THEN sinks
                        ELSE [sinks EXCEPT ![components[hit].event_sink] =
                                 pressed_event(components[hit].class, @)]
            /\ UNCHANGED <<components, hovering_over>>
       /\ (last'.op = "handle_drag_started") =>
            UNCHANGED <<components, next_id, root_id, tree_roots, runtime_model, cache,
                        hovering_over, sinks, trees>>]_vars

\* a release over a button other than the component hovered, whose event is
\* in the button's sink
C8_Witness ==
    /\ last.op = "handle_drag_ended"
    /\ last.events # <<>>
    /\ hovering_over # NoId
    /\ hovering_over # last.events[1][2]
    /\ sinks[components[last.events[1][2]].event_sink] # <<>>

IsPrefix(s, t) == Len(s) <= Len(t) /\ SubSeq(t, 1, Len(s)) = s

\* C9: on every sink the events next() has returned so far are the first of
\* the events raised so far, in the order raised; a next() that returns an
\* event returns the next of them, and one that returns None leaves none
\* undrained.
C9_Fifo ==
    /\ \A k \in 1..Len(sinks) : IsPrefix(returned[k], raised[k])
    /\ (last.op = "next") =>
          LET k == trees[last.tree].event_sink IN
          IF IsSome(last.ret)
          THEN returned[k] # <<>> /\ returned[k][Len(returned[k])] = Unwrap(last.ret)
          ELSE returned[k] = raised[k]

\* two different events were raised on a sink and both drained, the second
\* by the last call
C9_Witness ==
    /\ last.op = "next"
    /\ IsSome(last.ret)
    /\ \E k \in 1..Len(sinks) :
          /\ k = trees[last.tree].event_sink
          /\ Len(returned[k]) = 2
          /\ returned[k][1] # returned[k][2]

\* C10: update_model on a tree calls update_attributes on no component of a
\* subtree that insert_template grafted below that tree.
C10_GraftsUntouched ==
    (last.op = "update_model") =>
        \A t \in 1..Len(trees) :
            (/\ t # last.tree
             /\ trees[t].root \in Subtree(components, trees[last.tree].root))
            => \A k \in 1..Len(last.log) :
                   last.log[k] \notin Subtree(components, trees[t].root)

----------------------------------------------------------------------------
(* Properties of the store: trees, ids and children lists *)

\* the components of tree t that no handle of a subtree grafted below it covers
OwnComponents(comps, t) ==
    Subtree(comps, trees[t].root) \
        UNION {Subtree(comps, trees[j].root) :
                  j \in {i \in 1..Len(trees) :
                            /\ i # t
                            /\ trees[i].root \in Subtree(comps, trees[t].root)}}

\* the class a component has once its attributes are resolved afresh against
\* the model, its hover state kept
Reresolved(component, model) ==
    class_update_attributes(component.class,
        resolve(TemplateAt(component.template), StyleSheet, model).v, model).v

\* C11: after update_model(tree) returned Ok, every component reachable from
\* the tree's root without passing the root of a grafted subtree has had
\* update_attributes called on it, carries the class attributes the new
\* model resolves to, and has its dirty flag set.
C11_TreeUpdated ==
    (last.op = "update_model" /\ last.ok) =>
        \A id \in OwnComponents(components, last.tree) :
            /\ \E k \in 1..Len(last.log) : last.log[k] = id
            /\ components[id].needs_render_update
            /\ components[id].class = Reresolved(components[id], runtime_model)

\* a model was pushed into a tree of several components after a render had
\* cleared every flag: the tree is dirty again, a component outside it is not
C11_Witness ==
    /\ last.op = "update_model" /\ last.ok
    /\ Cardinality(OwnComponents(components, last.tree)) >= 2
    /\ \E id \in DOMAIN components : ~components[id].needs_render_update

\* the ids found in children lists, with their multiplicity
ChildEntries(comps) ==
    UNION {{<<p, k>> : k \in 1..Len(comps[p].children)} : p \in DOMAIN comps}

\* C12: every id handed out is greater than every id handed out before it,
\* also when a call fails part-way: the stored ids lie below the counter, a
\* step adds components only under ids from the old counter up to the new
\* one, never drops or replaces a stored component, and no id is listed as a
\* child twice or ahead of its parent.
C12_FreshIds ==
    /\ [](/\ \A id \in DOMAIN components : id >= 0 /\ id < next_id
          /\ \A e \in ChildEntries(components) :
                /\ components[e[1]].children[e[2]] > e[1]
                /\ \A f \in ChildEntries(components) :
                      components[f[1]].children[f[2]] = components[e[1]].children[e[2]]
                          => f = e)
    /\ [][/\ next_id' >= next_id
          /\ \A id \in DOMAIN components :
                /\ id \in DOMAIN components'
                /\ components'[id].template = components[id].template
          /\ \A id \in DOMAIN components' \ DOMAIN components :
                id >= next_id /\ id < next_id']_vars

\* an insert_template call failed part-way: it used up two ids, and only the
\* later one holds a component
C12_Witness ==
    /\ last.op = "insert_template" /\ ~last.ok
    /\ \E id \in 0..(next_id - 2) :
          /\ id \notin DOMAIN components
          /\ id + 1 \in DOMAIN components
          /\ next_id = id + 2

\* C13: a successful insert_template(style_class) appends one new id, the
\* root of the new subtree and of the returned Tree, as the last entry of the
\* children list of one component that was there before and has that style
\* class; the children list of every other such component is unchanged.
C13_OneAppend ==
    [][(last'.op = "insert_template" /\ last'.ok) =>
          \E p \in DOMAIN components :
          \E root \in {trees'[Len(trees')].root} :
              /\ Len(trees') = Len(trees) + 1
              /\ components[p].style_class = Some(last'.style_class)
              /\ root \notin DOMAIN components
              /\ components'[p].children = Append(components[p].children, root)
              /\ Subtree(components', root) = DOMAIN components' \ DOMAIN components
              /\ \A q \in DOMAIN components \ {p} :
                    components'[q].children = components[q].children]_vars

\* a subtree of two components was grafted below a component that already
\* had children
C13_Witness ==
    /\ last.op = "insert_template" /\ last.ok
    /\ Len(components[last.parent_id].children) >= 3
    /\ components[last.parent_id].children[3] = last.id
    /\ components[last.id].children # <<>>

\* the ids under which the children of a component's template were built
BuiltChildren(comps, id) ==
    SubSeq(comps[id].children, 1,
           Len(ChildrenOf(Template(comps[id].template[1]), comps[id].template[2])))

\* C14: the children list of every component holds, one to one and in
\* order, the components built from its template's children, followed only
\* by roots that insert_template appended; update_model, render,
\* handle_cursor_moved and handle_drag_ended leave every children list and
\* the set of stored components as they were.
C14_ChildrenFixed ==
    /\ [](\A id \in DOMAIN components :
          \A kids \in {ChildrenOf(Template(components[id].template[1]),
                                   components[id].template[2])} :
              /\ Len(components[id].children) >= Len(kids)
              /\ \A k \in 1..Len(components[id].children) :
                    /\ components[id].children[k] \in DOMAIN components
                    /\ IF k <= Len(kids)
                       THEN components[components[id].children[k]].template =
                                <<components[id].template[1], kids[k]>>
                       ELSE \E t \in 2..Len(trees) :
                                trees[t].root = components[id].children[k])
    /\ [][last'.op \in {"update_model", "render", "handle_cursor_moved",
                        "handle_drag_ended"} =>
              /\ DOMAIN components' = DOMAIN components
              /\ \A id \in DOMAIN components :
                    components'[id].children = components[id].children]_vars

\* a component with two built children and a grafted root behind them has
\* been rendered after the graft
C14_Witness ==
    /\ last.op = "render"
    /\ \E id \in DOMAIN components :
          /\ Len(BuiltChildren(components, id)) = 2
          /\ Len(components[id].children) = 3

\* the component at index i of template T fails on its own: its class is not
\* registered, its attributes do not resolve, or a resolved attribute does
\* not coerce
Fails(T, i, model) ==
    \E template \in {TemplateOf(T, Template(T), i)} :
    \E attributes \in {resolve(template, StyleSheet, model)} :
        \/ template.class \notin RegisteredClasses
        \/ ~attributes.ok
        \/ /\ attributes.ok
           /\ \/ ~ComponentClasses_create(template, attributes.v, model).ok
              \/ ~ComponentAttributes_load(attributes.v, model).ok

\* the failing components of template T, by index in document order
Failing(T, model) == {i \in 1..Len(Template(T)) : Fails(T, i, model)}

First(S) == CHOOSE i \in S : \A j \in S : i <= j

\* C15: Ui::new returns an error, and no Ui and no Tree, whenever a
\* component of the template, at any depth, names an unregistered class or
\* fails attribute resolution or coercion; the error is that of the first
\* such component.
C15_NewFails ==
    (last.op = "Ui::new" /\ Failing(last.template, last.model) # {}) =>
        /\ ~last.ok
        /\ trees = <<>> /\ components = <<>> /\ root_id = NoId /\ next_id = 0
        /\ last.e = from_template(TemplateOf(last.template, Template(last.template),
                                              First(Failing(last.template, last.model))),
                                   1, StyleSheet, last.model).e

\* Ui::new was refused a template whose first failure lies two levels down,
\* behind components that load, and ahead of a component that fails otherwise
C15_Witness ==
    /\ last.op = "Ui::new" /\ ~last.ok
    /\ \E i \in Failing(last.template, last.model) :
          /\ i = First(Failing(last.template, last.model))
          /\ Template(last.template)[i].level = 2
          /\ \E j \in Failing(last.template, last.model) :
                /\ j > i
                /\ Template(last.template)[j].class \in RegisteredClasses

----------------------------------------------------------------------------
(* Properties of the parser *)

\* a parse has been made of the text in last.text
Parsed == last.op \in {"Template::from_str", "Style::from_str"}

\* the nesting level a line's indentation stands for
Level(text, k) == Spacing(text[k].indentation) \div 4

\* the components of a forest in preorder, each with its line, its depth and
\* the line of its parent (0 at the top level)
RECURSIVE Flat(_, _, _)
Flat(forest, parent, depth) ==
    IF forest = <<>> THEN <<>>
    ELSE << [line |-> forest[1].line, depth |-> depth, parent |-> parent] >>
         \o Flat(forest[1].children, forest[1].line, depth + 1)
         \o Flat(Tail(forest), parent, depth)

\* the forest an accepted parse returned
Forest ==
    IF last.op = "Template::from_str" THEN << last.result.v.root >>
    ELSE last.result.v.components

\* the nearest line before k whose level is one less than that of k: 0 for a
\* line of level 0, -1 when there is no such line
NearestParent(text, k) ==
    IF Level(text, k) = 0 THEN 0
    ELSE IF \E j \in 1..(k - 1) : Level(text, j) = Level(text, k) - 1
    THEN CHOOSE j \in 1..(k - 1) :
             /\ Level(text, j) = Level(text, k) - 1
             /\ \A i \in (j + 1)..(k - 1) : Level(text, i) # Level(text, k) - 1
    ELSE -1

\* C16: parsing fails whenever the indentation of some component line, a
\* space counted as 1 and a tab as 4, is no multiple of 4; in an accepted
\* document every component lies as deep in the forest as that count
\* divided by 4.
C16_Indentation ==
    Parsed =>
        /\ (\E k \in 1..Len(last.text) : Spacing(last.text[k].indentation) % 4 # 0)
               => ~last.result.ok
        /\ last.result.ok =>
               \A F \in {Flat(Forest, 0, 0)} :
               \A i \in 1..Len(F) :
                   F[i].depth * 4 = Spacing(last.text[F[i].line].indentation)

\* a document was refused for a line indented by a tab and a space, behind
\* lines that parse
C16_Witness ==
    /\ Parsed /\ ~last.result.ok
    /\ last.result.e.error = "Bad amount of indentation spacing, must be divisible by 4"
    /\ last.result.e.line = 3
    /\ last.text[3].indentation = <<"\t", " ">>
    /\ last.text[2].indentation = <<"\t">>

\* C17: parsing fails whenever the level of a component exceeds the level of
\* the component before it by more than one, wherever in the document; the
\* error for an excessive increase is given for no line whose level is at
\* most one above that of the line before it.
C17_Excessive ==
    Parsed =>
        /\ (\E k \in 2..Len(last.text) : Level(last.text, k) > Level(last.text, k - 1) + 1)
               => ~last.result.ok
        /\ (~last.result.ok /\ last.result.e.error = "Excessive increase in indentation")
               => /\ last.result.e.line >= 2
                  /\ Level(last.text, last.result.e.line) >
                         Level(last.text, last.result.e.line - 1) + 1

\* the error was given for a fourth line two levels up, after a decrease
C17_Witness ==
    /\ Parsed /\ ~last.result.ok
    /\ last.result.e.error = "Excessive increase in indentation"
    /\ last.result.e.line = 4
    /\ Level(last.text, 2) = 1 /\ Level(last.text, 3) = 0 /\ Level(last.text, 4) = 2

\* the lines of level 0
TopLevel(text) == {k \in 1..Len(text) : Level(text, k) = 0}

\* every indentation a multiple of 4, the first line at level 0, no line more
\* than one level above the line before it
WellIndented(text) ==
    /\ \A k \in 1..Len(text) : Spacing(text[k].indentation) % 4 = 0
    /\ text # <<>> => Level(text, 1) = 0
    /\ \A k \in 2..Len(text) : Level(text, k) <= Level(text, k - 1) + 1

\* C18: a document with no top-level component, or with more than one, is
\* refused by Template::from_str, also when the further root follows a root
\* with children; Style::from_str accepts it and returns the top-level rules
\* in document order.
C18_Roots ==
    (Parsed /\ WellIndented(last.text) /\ Cardinality(TopLevel(last.text)) # 1) =>
        IF last.op = "Template::from_str"
        THEN ~last.result.ok
        ELSE /\ last.result.ok
             /\ [k \in 1..Len(last.result.v.components) |->
                    last.result.v.components[k].line] = SortedSeq(TopLevel(last.text))

\* a template was refused for a second root that follows a root with a child
C18_Witness ==
    /\ last.op = "Template::from_str" /\ ~last.result.ok
    /\ last.result.e.error =
           "More than one root component found in template, only one allowed"
    /\ Len(last.text) = 3
    /\ Level(last.text, 2) = 1 /\ Level(last.text, 3) = 0

\* C19: in every accepted document the forest holds every component once,
\* the parent of each is the nearest component before it whose level is one
\* less (none for level 0), and children lists are in document order.
C19_Forest ==
    (Parsed /\ last.result.ok) =>
        \A F \in {Flat(Forest, 0, 0)} :
            /\ Len(F) = Len(last.text)
            /\ {F[i].line : i \in 1..Len(F)} = 1..Len(last.text)
            /\ \A i \in 1..Len(F) : F[i].parent = NearestParent(last.text, F[i].line)
            /\ \A i, j \in 1..Len(F) :
                  (i < j /\ F[i].parent = F[j].parent) => F[i].line < F[j].line

\* a style of four lines was accepted: a root, a child with a nested child,
\* and a second child
C19_Witness ==
    /\ last.op = "Style::from_str" /\ last.result.ok
    /\ Len(last.text) = 4
    /\ Level(last.text, 2) = 1 /\ Level(last.text, 3) = 2 /\ Level(last.text, 4) = 1
    /\ Len(last.result.v.components[1].children) = 2

\* C20: Template::from_str returns an error for a component whose attribute
\* list holds the same key more than once.
C20_DuplicateRejected ==
    (/\ last.op = "Template::from_str"
     /\ \E k \in 1..Len(last.text) :
        \E i, j \in 1..Len(last.text[k].attributes) :
            /\ i < j
            /\ last.text[k].attributes[i].identifier = last.text[k].attributes[j].identifier)
        => ~last.result.ok

----------------------------------------------------------------------------
(* Properties of the attribute resolver *)

\* a resolution has been made of last.template against last.style
Resolved == last.op = "Attributes::resolve"

\* the attributes of the rules of a sheet that name the class, in sheet order
RECURSIVE StyleAttributes(_, _)
StyleAttributes(style, class) ==
    IF style = <<>> THEN <<>>
    ELSE (IF style[1].class = class THEN style[1].attributes ELSE <<>>)
         \o StyleAttributes(Tail(style), class)

\* every attribute a resolution looks at, in the order it looks at them
Candidates == StyleAttributes(last.style, last.template.class) \o last.template.attributes

\* the attributes among them whose condition, if any, holds when it is
\* evaluated: ScriptOnce holds where no attribute before it carries it
Effective(all, model) ==
    {i \in 1..Len(all) :
        \/ all[i].script_conditional = None
        \/ /\ all[i].script_conditional = Some(ScriptOnce)
           /\ "_G.seen" \notin DOMAIN model
           /\ \A j \in 1..(i - 1) : all[j].script_conditional # Some(ScriptOnce)
        \/ /\ all[i].script_conditional = Some("model.flag")
           /\ "flag" \in DOMAIN model
           /\ model["flag"] = SBool(TRUE)}

\* the last of a set of indices
Last(S) == CHOOSE i \in S : \A j \in S : j <= i

\* the effective attributes of the template with key k, as indices of Candidates
EffectiveOwn(k) ==
    {i \in Effective(Candidates, last.model) :
        /\ i > Len(Candidates) - Len(last.template.attributes)
        /\ Candidates[i].key = k}

\* C21: when the attribute list of a template holds a key several times,
\* resolve yields for it the value of the last occurrence, in declaration
\* order, among those whose condition is absent or true.
C21_LastOccurrence ==
    (Resolved /\ last.result.ok) =>
        \A i, j \in 1..Len(last.template.attributes) :
            (/\ i < j
             /\ last.template.attributes[i].key = last.template.attributes[j].key
             /\ EffectiveOwn(last.template.attributes[i].key) # {})
            => /\ last.template.attributes[i].key \in DOMAIN last.result.v.attributes
               /\ last.result.v.attributes[last.template.attributes[i].key] =
                      Candidates[Last(EffectiveOwn(last.template.attributes[i].key))].value

\* a template gives its margin twice, the second time under a condition that
\* holds, and the margin resolved is the second
C21_Witness ==
    /\ Resolved /\ last.result.ok
    /\ Len(last.template.attributes) = 2
    /\ last.template.attributes[1] = Attr("margin", Float(1))
    /\ last.template.attributes[2] = AttrIf("margin", Float(2), "model.flag")
    /\ last.result.v.attributes["margin"] = Float(2)

\* the keys the matching style rules define
StyleKeys ==
    {a.key : a \in {StyleAttributes(last.style, last.template.class)[i] :
                       i \in 1..Len(StyleAttributes(last.style, last.template.class))}}

\* C22 as stated: for a component that matches a style rule defining a key
\* and declares the key in its own attribute list, resolve yields a value
\* the template gives the key.
C22_TemplateWins ==
    (Resolved /\ last.result.ok) =>
        \A i \in 1..Len(last.template.attributes) :
            last.template.attributes[i].key \in StyleKeys =>
                /\ last.template.attributes[i].key \in DOMAIN last.result.v.attributes
                /\ \E j \in 1..Len(last.template.attributes) :
                      /\ last.template.attributes[j].key = last.template.attributes[i].key
                      /\ last.result.v.attributes[last.template.attributes[i].key] =
                             last.template.attributes[j].value

\* C22, amended: for a component that matches a style rule defining a key
\* and declares the key in its own attribute list under no condition or
\* under a condition that holds, resolve yields the value of the template's
\* last such declaration, never the style's.
C22_TemplateWinsIfEffective ==
    (Resolved /\ last.result.ok) =>
        \A k \in StyleKeys :
            EffectiveOwn(k) # {} =>
                /\ k \in DOMAIN last.result.v.attributes
                /\ last.result.v.attributes[k] = Candidates[Last(EffectiveOwn(k))].value

\* a button with a margin of its own under a button rule that sets a margin
C22_Witness ==
    /\ Resolved /\ last.result.ok
    /\ "margin" \in StyleKeys
    /\ last.template.attributes = <<Attr("margin", Float(1))>>
    /\ last.result.v.attributes["margin"] = Float(1)

C24_DefaultIsAbsent ==
    (/\ last.op \in {"Attributes::attribute", "Attributes::attribute_optional"}
     /\ last.key \in DOMAIN last.attributes.attributes
     /\ last.attributes.attributes[last.key] = Default)
        => last.result = IF last.op = "Attributes::attribute"
                         THEN Ok(last.default) ELSE Ok(None)

\* C30: the resolved attributes are those of the style rules whose class is
\* the template's, in sheet order, and then the template's, each attribute
\* whose condition is absent or true overwriting the value its key had, and
\* an attribute whose condition is false leaving it alone.
C30_Cascade ==
    (Resolved /\ last.result.ok) =>
        \A E \in {Effective(Candidates, last.model)} :
            /\ DOMAIN last.result.v.attributes = {Candidates[i].key : i \in E}
            /\ \A k \in DOMAIN last.result.v.attributes :
                  last.result.v.attributes[k] =
                      Candidates[Last({i \in E : Candidates[i].key = k})].value

\* a sheet with a rule for containers and a rule for buttons whose margin
\* stays, under a template whose own margin has a condition that is false
C30_Witness ==
    /\ Resolved /\ last.result.ok
    /\ Len(last.style) = 2
    /\ last.style[2].class = "container"
    /\ last.template.attributes = <<AttrIf("margin", Float(1), "model.flag")>>
    /\ last.result.v.attributes = ("margin" :> Float(3))

----------------------------------------------------------------------------
(* Properties of the layout *)

\* compute_position has been called for a child with a position of its own
Docked == last.op = "compute_position" /\ IsSome(last.attributes.position)

\* the offset and the extent of the child of the last call on an axis
OffsetOn(axis) ==
    IF axis = 1 THEN to_float(last.attributes.position[1].x, last.parent_size[1])
    ELSE to_float(last.attributes.position[1].y, last.parent_size[2])

ExtentOn(axis) ==
    IF last.attributes.size = None THEN last.parent_size[axis]
    ELSE IF axis = 1 THEN to_float(last.attributes.size[1].x, last.parent_size[1])
    ELSE to_float(last.attributes.size[1].y, last.parent_size[2])

\* C25: for a component with a position of its own, the position computed
\* on an axis is the offset for start docking, the offset plus half of the
\* parent's extent less its own for middle, and the offset plus the parent's
\* extent less its own for end, whatever the other axis holds.
C25_Docking ==
    Docked =>
        \A axis \in {1, 2} :
            /\ last.attributes.docking[axis] = "start" =>
                    last.position[axis] = OffsetOn(axis)
            /\ last.attributes.docking[axis] = "middle" =>
                    2 * (last.position[axis] - OffsetOn(axis)) =
                        last.parent_size[axis] - ExtentOn(axis)
            /\ last.attributes.docking[axis] = "end" =>
                    last.position[axis] =
                        OffsetOn(axis) + last.parent_size[axis] - ExtentOn(axis)

\* a child 30 wide at offset 0 of a parent 100 wide, docked to the end
\* across and to the middle down, is at 70 across and 40 down
C25_Witness ==
    /\ Docked
    /\ last.attributes.docking = <<"end", "middle">>
    /\ last.attributes.size = Some([x |-> Exact(30), y |-> Exact(20)])
    /\ last.attributes.position = Some([x |-> Exact(0), y |-> Exact(0)])
    /\ last.position = <<70, 40>>

\* the children the flow of the last call has placed
Placed == IF "placed" \in DOMAIN last THEN last.placed ELSE <<>>

\* the width and the margin of the k-th child placed
WidthOf(k) == compute_size(Placed[k].attributes, last.parent_size)[1]
MarginOf(k) == Placed[k].attributes.margin

\* the place the flow gives the k-th child on a new line, and on the line
\* it is on
OnNewLine(k) == <<MarginOf(k), Placed[k].before.next_line + MarginOf(k)>>
OnSameLine(k) ==
    <<Placed[k].before.pointer[1] + Max(Placed[k].before.pointer_margin, MarginOf(k)),
      Placed[k].before.pointer[2] + MarginOf(k)>>

\* C26 as stated: the flow places a child on a new line exactly when the
\* right edge of the child placed before it on the line plus the width of
\* the child is more than the width of the parent, and on the line if not.
C26_WrapsOnWidth ==
    \A k \in 1..Len(Placed) :
        Placed[k].position =
            IF Placed[k].before.pointer[1] + WidthOf(k) > last.parent_size[1]
            THEN OnNewLine(k) ELSE OnSameLine(k)

\* C26, amended: the flow places a child on a new line exactly when the
\* right edge of the child placed before it on the line, plus the larger of
\* that child's margin and its own, plus its width is more than the width
\* of the parent, and on the line if not.
C26_WrapsOnWidthAndMargin ==
    \A k \in 1..Len(Placed) :
        Placed[k].position =
            IF Placed[k].before.pointer[1]
                   + Max(Placed[k].before.pointer_margin, MarginOf(k))
                   + WidthOf(k) > last.parent_size[1]
            THEN OnNewLine(k) ELSE OnSameLine(k)

\* two children 50 wide without margins fill a line of 100 and a third
\* starts the next line
C26_Witness ==
    /\ Len(Placed) = 3
    /\ \A k \in 1..3 : WidthOf(k) = 50 /\ MarginOf(k) = 0
    /\ Placed[1].position = <<0, 0>>
    /\ Placed[2].position = <<50, 0>>
    /\ Placed[3].position = <<0, 40>>

\* the k-th child placed is on the line of the child placed before it
SameLine(k) ==
    /\ k > 1
    /\ Placed[k].before.pointer[1]
           + Max(Placed[k].before.pointer_margin, MarginOf(k))
           + WidthOf(k) <= last.parent_size[1]

----------------------------------------------------------------------------
(* Properties of the bounds the hit-test computes *)

\* a hit-test has walked the components from the root
HitTested == last.op \in {"handle_cursor_moved", "handle_drag_ended"}

\* the components the walk from the root can come to
Walked ==
    {id \in DOMAIN components :
        \/ id = root_id
        \/ \E p \in DOMAIN components :
              \E k \in 1..Len(components[p].children) : components[p].children[k] = id}

\* a size attribute against an extent: a percentage is that share of the
\* extent, and no size is the extent itself
SizeAgainst(size, extent) ==
    IF size = None THEN extent
    ELSE <<IF size[1].x.rel THEN (extent[1] * size[1].x.v) \div 100 ELSE size[1].x.v,
           IF size[1].y.rel THEN (extent[2] * size[1].y.v) \div 100 ELSE size[1].y.v>>

\* the extent of the parent of a component: the target size for the root
ParentExtent(id) ==
    IF id = root_id THEN TargetSize
    ELSE computed_size(components, parent_of(components, id), root_id)

\* C28: in a hit-test the size of a component, the root with the target
\* size of the Ui for the extent of its parent among them, is its size
\* attribute against the extent of its parent, percentages as shares of it,
\* or the whole extent of the parent when it has no size.
C28_SizeAgainstParent ==
    HitTested =>
        \A id \in Walked :
            computed_size(components, id, root_id) =
                SizeAgainst(components[id].attributes.size, ParentExtent(id))

\* the core attributes a component has once its attributes are resolved
\* afresh against the model
Reloaded(component, model) ==
    ComponentAttributes_load(
        resolve(TemplateAt(component.template), StyleSheet, model).v, model).v

\* C29: when update_model has changed what the position, size, docking or
\* margin of a component resolves to, the hit-test that follows computes the
\* bounds of the component from the core attributes the new model resolves
\* to, not from those resolved when the component was made.
C29_CurrentBounds ==
    [][(last.op = "update_model" /\ last.ok /\ last'.op = "handle_cursor_moved") =>
          \A id \in OwnComponents(components, last.tree) :
              components[id].attributes = Reloaded(components[id], runtime_model)]_vars

----------------------------------------------------------------------------
(* Properties of the errors of attribute reads *)

\* an attribute has been read through attribute or attribute_optional
Read == last.op \in {"Attributes::attribute", "Attributes::attribute_optional"}

\* C31: a coercion that fails in attribute or attribute_optional comes back
\* as an Attribute error with the class and the line of the component the
\* attributes were resolved for, the key read, and the error of the coercion
\* inside it.
C31_Wrapped ==
    (Read /\ ~last.result.ok) =>
        /\ last.key \in DOMAIN last.attributes.attributes
        /\ ~Coerce(last.how, last.attributes.attributes[last.key], runtime_model).ok
        /\ last.result.e =
              [kind |-> "Attribute",
               component |-> last.attributes.component_class,
               line |-> last.attributes.component_line,
               field |-> last.key,
               inner |-> Coerce(last.how, last.attributes.attributes[last.key],
                                runtime_model).e]

\* the size of a button, a number where a pair is due, read through
\* attribute_optional
C31_Witness ==
    /\ last.op = "Attributes::attribute_optional" /\ ~last.result.ok
    /\ last.key = "size"
    /\ last.result.e.component = "button"
    /\ last.result.e.line = 1
    /\ last.result.e.inner.kind # "Attribute"

----------------------------------------------------------------------------
(* Properties of insert_template calls that fail *)

\* the step is an insert_template call that returns an error
InsertFails == inserts' # inserts /\ last'.op = "insert_template" /\ ~last'.ok

\* the components that carry the style class the call asks for
Carriers == {key \in DOMAIN components :
                components[key].style_class = <<last'.style_class>>}

\* C32: an insert_template call that fails while it makes the components of
\* the new subtree leaves the Ui as it was: the store holds the components
\* it held, with the children they had.
C32_FailedInsertUndone ==
    [][(InsertFails /\ Carriers # {}) => components' = components]_vars

\* C34: an insert_template call for a style class no component carries
\* returns an error and leaves the store, the children lists, the next id,
\* the model of the scripts and the trees as they were.
C34_NoParent ==
    [][(inserts' # inserts /\ last'.op = "insert_template" /\ Carriers = {}) =>
          /\ ~last'.ok
          /\ components' = components
          /\ next_id' = next_id
          /\ runtime_model' = runtime_model
          /\ trees' = trees
          /\ sinks' = sinks]_vars

\* a call for a style class nobody carries has failed
C34_Witness ==
    /\ last.op = "insert_template" /\ ~last.ok
    /\ last.style_class = "nowhere"
    /\ \A key \in DOMAIN components : components[key].style_class # <<"nowhere">>
    /\ components # <<>>

----------------------------------------------------------------------------
(* Properties of the bounds of a child within its parent *)

\* C33: the bounds compute_position and compute_size give a child, from a
\* position of its own with its docking or from the flow, lie within the
\* bounds of its parent, so that a point the parent misses is in no child.
C33_ChildWithinParent ==
    last.op = "compute_position" =>
        \A axis \in {1, 2} :
            /\ last.position[axis] >= 0
            /\ last.position[axis] + compute_size(last.attributes, last.parent_size)[axis]
                   <= last.parent_size[axis]

----------------------------------------------------------------------------
(* Properties of the hover events of one Input *)

\* a button has had a hover_start_event no hover_end_event has followed: it
\* keeps that in its hovering field
Started(comps, id) == comps[id].class.hovering

\* the hover events of the step fired on a component
Fired(event, id) ==
    {i \in 1..Len(last'.events) : last'.events[i] = <<event, id>>}

\* the hover events of a handle_cursor_moved step: none when the hit is the
\* one before; if not, one start on the component now hit, which was not
\* the hovered one, and one end on the component hovered before
HoverStep ==
    last'.op = "handle_cursor_moved" =>
        /\ hovering_over' = hovering_over => last'.events = <<>>
        /\ \A id \in DOMAIN components :
              /\ Cardinality(Fired("hover_start_event", id)) =
                     IF id = hovering_over' /\ id # hovering_over THEN 1 ELSE 0
              /\ Cardinality(Fired("hover_end_event", id)) =
                     IF id = hovering_over /\ id # hovering_over' THEN 1 ELSE 0
        /\ \A i \in 1..Len(last'.events) : last'.events[i][2] \in DOMAIN components

\* C35: over the handle_cursor_moved calls of one Input on one Ui, the
\* hover_start_event and hover_end_event calls on a component alternate,
\* the first a start, none is fired when the hit is the one before, and
\* after a call the one component with a start no end has followed is the
\* component recorded as hovered, if any: a call starts the component it
\* records as hovered unless it was recorded already, ends the one recorded
\* before unless it still is, and a button is started exactly while it is
\* the one recorded.
C35_HoverAlternates ==
    /\ [](\A id \in DOMAIN components :
             "hovering" \in DOMAIN components[id].class =>
                 (Started(components, id) <=> id = hovering_over))
    /\ [][HoverStep]_vars

\* the cursor has gone from one button to another: the one is ended, the
\* other started
C35_Witness ==
    /\ last.op = "handle_cursor_moved"
    /\ Len(last.events) = 2
    /\ hovering_over # NoId
    /\ components[hovering_over].class.name = "button"
    /\ Started(components, hovering_over)
    /\ \E i, j \in 1..2 :
          /\ last.events[i] = <<"hover_start_event", hovering_over>>
          /\ last.events[j][1] = "hover_end_event"
          /\ components[last.events[j][2]].class.name = "button"
          /\ ~Started(components, last.events[j][2])

----------------------------------------------------------------------------
(* Properties of the dirty flag between render passes *)

\* C36: a dirty flag that is set stays set through every operation but a
\* render pass that completes, and that pass renders the component; a hover
\* event leaves a set flag set.
C36_ClearedByRendering ==
    [][\A id \in DOMAIN components :
          (components[id].needs_render_update /\ ~components'[id].needs_render_update) =>
              /\ last'.op = "render" /\ last'.ok
              /\ Rendered(last'.log, id)]_vars

\* C37: a render pass that returns an error clears no dirty flag, and the
\* components that were stale in it, by their flag or by a cache the pass
\* made or resized, are rendered by the successful pass that follows.
C37_FailedPassRetried ==
    [][/\ (last'.op = "render" /\ ~last'.ok) =>
             \A id \in DOMAIN components :
                 components[id].needs_render_update =>
                     components'[id].needs_render_update
       /\ (last.op = "render" /\ ~last.ok /\ last'.op = "render" /\ last'.ok) =>
             \A id \in Subtree(components, root_id) :
                 (components[id].needs_render_update \/ ReportedNew(last.log, id)) =>
                     Rendered(last'.log, id)]_vars

----------------------------------------------------------------------------
(* Properties of the sinks of the trees *)

\* the events a press on a component raises: the name under on-pressed of a
\* button that has one
Raises(component) ==
    IF component.class.name = "button" /\ component.class.attributes.on_pressed # <<>>
    THEN <<component.class.attributes.on_pressed[1].s>>
    ELSE <<>>

\* C38: an event a component raises is put once on the sink of the Tree
\* handle that the Ui::new or insert_template call that made the component
\* returned, and on no other sink; what a sink hands out is what was put on
\* it, also for a tree grafted under another.
C38_OwnSink ==
    /\ [](\A t \in 1..Len(trees) :
             IsPrefix(returned[trees[t].event_sink], raised[trees[t].event_sink]))
    /\ [][(last'.op = "handle_drag_ended" /\ last'.events # <<>>) =>
             \A t \in 1..Len(trees) :
                 sinks'[trees[t].event_sink] =
                     IF last'.events[1][2] \in OwnComponents(components, t)
                     THEN sinks[trees[t].event_sink]
                              \o Raises(components[last'.events[1][2]])
                     ELSE sinks[trees[t].event_sink]]_vars

\* the button of a grafted tree was pressed: its event is on the sink of the
\* graft and the sink of the tree it was grafted under is empty
C38_Witness ==
    /\ last.op = "handle_drag_ended" /\ last.events # <<>>
    /\ Len(trees) = 2
    /\ last.events[1][2] \in Subtree(components, trees[2].root)
    /\ sinks[trees[2].event_sink] = Raises(components[last.events[1][2]])
    /\ Raises(components[last.events[1][2]]) # <<>>
    /\ sinks[trees[1].event_sink] = <<>>

----------------------------------------------------------------------------
(* Properties of the shape of the store *)

\* the ids in the children list of a component
ChildSet(comps, id) == {comps[id].children[k] : k \in 1..Len(comps[id].children)}

\* the ids reached from the ids S in up to n steps along children lists
RECURSIVE Within(_, _, _)
Within(comps, S, n) ==
    IF n = 0 THEN S
    ELSE Within(comps,
                S \cup UNION {ChildSet(comps, id) : id \in S \cap DOMAIN comps},
                n - 1)

\* C39: whatever calls of insert_template and update_model, successful or
\* failed, have been made on a Ui, every id in a children list is a key of
\* the store, no id is in two children lists or twice in one, no component
\* is below itself, and the root is in no children list.
C39_Forest ==
    /\ \A id \in DOMAIN components :
          /\ ChildSet(components, id) \subseteq DOMAIN components
          /\ Cardinality(ChildSet(components, id)) = Len(components[id].children)
          /\ \A other \in DOMAIN components \ {id} :
                ChildSet(components, id) \cap ChildSet(components, other) = {}
          /\ id \notin Within(components, ChildSet(components, id),
                               Cardinality(DOMAIN components))
          /\ root_id \notin ChildSet(components, id)
    /\ root_id \in DOMAIN components

\* a tree was grafted and a model pushed, and the store holds a component
\* with several children
C39_Witness ==
    /\ Len(trees) = 2
    /\ last.op = "update_model"
    /\ \E id \in DOMAIN components : trees[2].root \in ChildSet(components, id)
    /\ \E id \in DOMAIN components : Len(components[id].children) >= 3

----------------------------------------------------------------------------
(* Properties of the rectangles of a flow *)

\* the height of the k-th child placed, and its edges
HeightOf(k) == compute_size(Placed[k].attributes, last.parent_size)[2]
LeftOf(k) == Placed[k].position[1]
TopOf(k) == Placed[k].position[2]
RightOf(k) == LeftOf(k) + WidthOf(k)
BottomOf(k) == TopOf(k) + HeightOf(k)

\* C40: the rectangles one flow gives children whose sizes and margins are
\* not negative do not overlap: a child kept on the line starts at or right
\* of the right edge of the child before it, and a child put on a new line
\* starts at or below the bottom edge of every child placed before it.
C40_NoOverlap ==
    \A j \in 1..Len(Placed) :
        (\A i \in 1..j : MarginOf(i) >= 0) =>
            /\ SameLine(j) => LeftOf(j) >= RightOf(j - 1)
            /\ ~SameLine(j) => \A i \in 1..(j - 1) : TopOf(j) >= BottomOf(i)
            /\ \A i \in 1..(j - 1) :
                  \/ LeftOf(j) >= RightOf(i)
                  \/ LeftOf(i) >= RightOf(j)
                  \/ TopOf(j) >= BottomOf(i)
                  \/ TopOf(i) >= BottomOf(j)

\* a tall child and a short one share a line, and a third starts a line
\* below the tall one
C40_Witness ==
    /\ Len(Placed) = 3
    /\ \A k \in 1..3 : MarginOf(k) >= 0
    /\ HeightOf(1) > HeightOf(2)
    /\ SameLine(2) /\ ~SameLine(3)
    /\ TopOf(3) >= BottomOf(1)
    /\ LeftOf(3) < RightOf(1)

====
